---------------------------- MODULE Spec2Model ----------------------------
(***************************************************************************)
(* Travel planner: route acquisition with per-profile fallback             *)
(* (TransportModule.getMultipleRoutes / getRoute / createFallbackRoute),   *)
(* the shared Nominatim throttle (searchAddress / reverseGeocode) and the  *)
(* cost estimation engine (CostModule.calculateTripCost).                  *)
(*                                                                         *)
(* Units.  Coordinates are integers in 1e-4 degree.  Great-circle          *)
(* distances are integers in decimetres, inflated travel distances in      *)
(* centimetres, the "x.xx" km strings produced by toFixed(2) are integers  *)
(* in hundredths of a km.  Clock values are milliseconds.                  *)
(***************************************************************************)
EXTENDS Integers, Sequences, FiniteSets, TLC

VARIABLES
    now,                  \* Date.now(), ms
    start, end,           \* arguments of getMultipleRoutes
    mainPc,               \* position of getMultipleRoutes
    attempt,              \* per profile: position of getRoute and its 5 s timer
    slot,                 \* per profile: what its routePromise settled to
    outcome,              \* what getMultipleRoutes resolved / rejected with
    lastNominatimRequest, \* transport.js:419
    callers,              \* per caller: position in searchAddress / reverseGeocode
    sends,                \* times at which a request was sent to Nominatim
    params,               \* argument of calculateTripCost
    costPc,               \* position of the cost computation
    costs,                \* CostBreakdown returned by calculateTripCost
    state,                \* TravelApp state: departure, destination, routes
    inputs,               \* text of the departure and destination inputs
    subs,                 \* per submission: position in handleFormSubmit
    history,              \* localStorage 'travelHistory'
    loading,              \* loading overlay has class 'active'
    timeout,              \* per input: the timer of its debounced handler
    calls,                \* calls of the debounced handlers so far
    runs,                 \* runs of the debounced function so far
    lists,                \* per input: its autocomplete list
    searches,             \* per caller: the handleAddressSearch awaiting it
    stateRoutes,          \* TravelApp state.routes
    selectedRoute,        \* TravelApp state.selectedRoute
    routeLayers,          \* MapModule routeLayers
    routeCards,           \* the route cards that are displayed
    optArgs,              \* arguments of getOptimalRoute
    optPc,                \* position of the getOptimalRoute call
    optResult,            \* what getOptimalRoute returned
    poiArgs,              \* Overpass response and arguments of searchPOIs
    poiPc,                \* position of the searchPOIs call
    poiResult             \* what searchPOIs resolved with

routeVars == <<start, end, mainPc, attempt, slot, outcome>>
throttleVars == <<lastNominatimRequest, callers, sends>>
costVars == <<params, costPc, costs>>
acVars == <<timeout, calls, runs, lists, searches>>
mapVars == <<stateRoutes, selectedRoute, routeLayers, routeCards>>
appVars == <<state, inputs, subs, history, loading, acVars, mapVars>>
optVars == <<optArgs, optPc, optResult>>
poiVars == <<poiArgs, poiPc, poiResult>>
vars == <<now, routeVars, throttleVars, costVars, appVars, optVars, poiVars>>

-----------------------------------------------------------------------------
(* Arithmetic of the JavaScript number operations the code uses.           *)

Abs(x) == IF x < 0 THEN -x ELSE x

Max(a, b) == IF a >= b THEN a ELSE b

\* Math.round(n / d) and (n / d).toFixed(k) for n >= 0, d > 0: nearest, half up.
RoundDiv(n, d) == (2 * n + d) \div (2 * d)

-----------------------------------------------------------------------------
(* Values.                                                                 *)

Num(v) == [t |-> "num", v |-> v]
\* a component parseFloat turns into NaN (a non-numeric string, undefined)
NotANumber == [t |-> "nan", v |-> 0]
\* Infinity: parseFloat keeps it, the trigonometry turns it into NaN
Infinite == [t |-> "inf", v |-> 0]

Missing == [k |-> "missing", a |-> <<>>]
Arr(s) == [k |-> "array", a |-> s]
\* [lng, lat]
Point(lng, lat) == Arr(<<Num(lng), Num(lat)>>)

Null == [k |-> "null"]
Pending == [k |-> "pending"]

-----------------------------------------------------------------------------
(* Route acquisition: TransportModule (transport.js:588-849, 888-964).     *)

\* 5 second timeout of one primary attempt
ROUTE_TIMEOUT == 5000

\* profiles of getMultipleRoutes, in the order of the array
profiles ==
    << [profile |-> "driving-car", name |-> "jadongcha", icon |-> "fa-car", speed |-> 60],
       [profile |-> "foot-walking", name |-> "dobo", icon |-> "fa-person-walking", speed |-> 5],
       [profile |-> "cycling-regular", name |-> "jajeongeo", icon |-> "fa-bicycle", speed |-> 15] >>

ProfileIds == DOMAIN profiles

\* formatDuration(seconds): hours and minutes of the text
formatDuration(seconds) ==
    [hours |-> seconds \div 3600, minutes |-> (seconds % 3600) \div 60]

\* a classification by duration alone
getRouteTypeByDuration(route) ==
    IF route.durationMinutes < 60 THEN "fastest" ELSE "balanced"

\* getRouteType: distance is the "x.xx" km text read back by parseFloat
getRouteType(route) ==
    IF route.durationMinutes < 60 THEN "fastest"
    ELSE IF route.distance < 10 * 100 THEN "cheapest"
    ELSE "balanced"

\* Haversine distance in decimetres (floor), for the two point configurations
\* in which the formula is exactly R * angle: both points on one meridian, or
\* both on the equator.  R = 6371 km: 111.1949 dm per 1e-4 degree.
calculateDistance(lat1, lng1, lat2, lng2) ==
    LET units == CASE lng1 = lng2 -> Abs(lat2 - lat1)
                   [] lat1 = 0 /\ lat2 = 0 -> Abs(lng2 - lng1)
    IN  units * 111 + (units * 1949) \div 10000

\* parseFloat of one coordinate component yields NaN
ParsesToNaN(c) == c.t = "nan"

Thrown(msg) == [ok |-> FALSE, error |-> msg]
Returned(r) == [ok |-> TRUE, route |-> r]

\* createFallbackRoute: the route, or the error it throws
createFallbackRoute(s, e, name, icon, profile, speed) ==
    IF s.k = "missing" \/ e.k = "missing"
    THEN Thrown("Start or end is null/undefined")
    ELSE IF Len(s.a) # 2 \/ Len(e.a) # 2
    THEN Thrown("Invalid array length")
    ELSE IF speed <= 0
    THEN Thrown("Invalid speed")
    ELSE IF \E c \in {s.a[1], s.a[2], e.a[1], e.a[2]} : ParsesToNaN(c)
    THEN Thrown("Coordinates contain NaN values")
    ELSE IF \E c \in {s.a[1], s.a[2], e.a[1], e.a[2]} : c.t = "inf"
    THEN Thrown("Invalid distance calculated")   \* sin(Infinity) is NaN
    ELSE
      LET distance == calculateDistance(s.a[2].v, s.a[1].v, e.a[2].v, e.a[1].v)
          travelDistance == distance * 13         \* distance * 1.3, centimetres
          durationMinutes == RoundDiv(travelDistance * 6, 10000 * speed)
          fixed == RoundDiv(travelDistance, 1000) \* travelDistance.toFixed(2)
      IN  IF distance <= 0
          THEN Thrown("Invalid distance calculated")
          ELSE IF durationMinutes <= 0
          THEN Thrown("Invalid duration calculated")
          ELSE Returned(
                [coordinates |-> <<s, e>>,
                 distance |-> fixed,
                 duration |-> formatDuration(durationMinutes * 60),
                 durationMinutes |-> durationMinutes,
                 instructions |-> << [instruction |-> name,
                                      distance |-> fixed,
                                      duration |-> durationMinutes] >>,
                 profile |-> profile,
                 name |-> name,
                 icon |-> icon,
                 type |-> getRouteType([distance |-> fixed,
                                        durationMinutes |-> durationMinutes]),
                 isFallback |-> TRUE])

\* Bodies the routing provider may deliver after an OK status line.
\* summary.distance in metres, summary.duration in seconds.  geometry is
\* "line" for an object with a coordinates array, "empty" for one whose
\* coordinates array is empty, "encoded" for the encoded polyline string of
\* the provider's JSON format.
ProviderBodies ==
    { [kind |-> "routes", distance |-> 4, duration |-> 20, steps |-> 1,
       geometry |-> "line"],
      [kind |-> "routes", distance |-> 12345, duration |-> 1850, steps |-> 2,
       geometry |-> "encoded"],
      [kind |-> "routes", distance |-> 328800, duration |-> 14400, steps |-> 2,
       geometry |-> "line"],
      [kind |-> "empty", distance |-> 0, duration |-> 0, steps |-> 0, geometry |-> ""],
      [kind |-> "unparsable", distance |-> 0, duration |-> 0, steps |-> 0,
       geometry |-> ""] }

\* the value undefined in a place where the code expects an array; arrays
\* are sequences, and no array of the model equals this one
UndefinedCoordinates == <<"undefined">>

\* route.geometry.coordinates: a property a string does not have
GeometryCoordinates(body) ==
    CASE body.geometry = "line" -> <<"geometry">>
      [] body.geometry = "empty" -> <<>>
      [] OTHER -> UndefinedCoordinates

\* the object getRoute returns for a body with a route (transport.js:623-637)
NormalizeRoute(body, profile) ==
    [coordinates |-> GeometryCoordinates(body),
     distance |-> RoundDiv(body.distance, 10),
     duration |-> formatDuration(body.duration),
     durationMinutes |-> RoundDiv(body.duration, 60),
     instructions |-> [i \in 1..body.steps |-> "step"],
     profile |-> profile]

\* getRoute after response.json(): the route, or the error thrown
ParseBody(body, profile) ==
    CASE body.kind = "unparsable" -> Thrown("Unexpected token")
      [] body.kind = "empty" -> Thrown("No route found")
      [] body.kind = "routes" -> Returned(NormalizeRoute(body, profile))

\* map callback of getMultipleRoutes, success branch (transport.js:685-690)
DecorateRoute(route, p) ==
    [coordinates |-> route.coordinates,
     distance |-> route.distance,
     duration |-> route.duration,
     durationMinutes |-> route.durationMinutes,
     instructions |-> route.instructions,
     profile |-> route.profile,
     name |-> p.name,
     icon |-> p.icon,
     type |-> getRouteType(route)]

\* the fallback of every profile estimated at the driving speed
FallbackSlotAtDrivingSpeed(s, e, i) ==
    LET p == profiles[i]
        fb == createFallbackRoute(s, e, p.name, p.icon, p.profile, profiles[1].speed)
    IN  IF fb.ok THEN fb.route ELSE Null

\* map callback of getMultipleRoutes, catch branch (transport.js:691-705):
\* what the routePromise of profile i resolves to after getRoute threw
FallbackSlot(s, e, i) ==
    LET p == profiles[i]
        fb == createFallbackRoute(s, e, p.name, p.icon, p.profile, p.speed)
    IN  IF fb.ok THEN fb.route ELSE Null

\* validation at the head of getMultipleRoutes (transport.js:664)
InvalidCoordinates(s, e) ==
    s.k = "missing" \/ e.k = "missing" \/ Len(s.a) # 2 \/ Len(e.a) # 2

\* the routes that are not null, last profile first
RECURSIVE FilterNotNullLastFirst(_)
FilterNotNullLastFirst(seq) ==
    IF seq = <<>> THEN <<>>
    ELSE IF Head(seq) = Null THEN FilterNotNullLastFirst(Tail(seq))
    ELSE FilterNotNullLastFirst(Tail(seq)) \o <<Head(seq)>>

\* routes.filter(route => route !== null), in array order
RECURSIVE FilterNotNull(_)
FilterNotNull(seq) ==
    IF seq = <<>> THEN <<>>
    ELSE IF Head(seq) = Null THEN FilterNotNull(Tail(seq))
    ELSE <<Head(seq)>> \o FilterNotNull(Tail(seq))

\* Bounds of the route model: the clock advances in steps of RouteTick ms,
\* MaxTicks times.
MaxTicks == 3
RouteTick == ROUTE_TIMEOUT \div 2

\* Arguments the model calls getMultipleRoutes with.  Well-formed points lie
\* on the meridian 127.0000 E; from the origin the destinations are 0 m,
\* 11 m, 111 m, 5.6 km, 11 km and 256 km away.
Origin == Point(1270000, 375000)
StartInputs == {Origin, Missing, Arr(<<NotANumber, Num(375000)>>)}
EndInputs ==
    { Point(1270000, 375000), Point(1270000, 375001), Point(1270000, 375010),
      Point(1270000, 375500), Point(1270000, 376000), Point(1270000, 352000),
      Missing, Arr(<<Num(1270000)>>),
      Arr(<<NotANumber, NotANumber>>), Arr(<<Infinite, Num(352000)>>) }

NoBody == [kind |-> "none", distance |-> 0, duration |-> 0, steps |-> 0, geometry |-> ""]
\* rank: how many of the attempts had settled before this one did
IdleAttempt ==
    [pc |-> "idle", timerArmed |-> FALSE, deadline |-> 0, error |-> "", body |-> NoBody,
     rank |-> 0]

SettledCount == Cardinality({j \in ProfileIds : attempt[j].pc = "settled"})

RoutesIdle ==
    /\ start = Missing
    /\ end = Missing
    /\ mainPc = "off"
    /\ attempt = <<>>
    /\ slot = <<>>
    /\ outcome = [status |-> "pending", routes |-> <<>>, error |-> ""]

ThrottleIdle ==
    /\ lastNominatimRequest = 0
    /\ callers = <<>>
    /\ sends = <<>>

CostIdle ==
    /\ params = [k |-> "none"]
    /\ costPc = "off"
    /\ costs = [k |-> "none"]

AcIdle ==
    /\ timeout = <<>>
    /\ calls = <<>>
    /\ runs = <<>>
    /\ lists = <<>>
    /\ searches = <<>>

MapIdle ==
    /\ stateRoutes = <<>>
    /\ selectedRoute = [k |-> "none"]
    /\ routeLayers = <<>>
    /\ routeCards = <<>>

AppIdle ==
    /\ state = [k |-> "none"]
    /\ inputs = <<>>
    /\ subs = <<>>
    /\ history = <<>>
    /\ loading = FALSE
    /\ AcIdle
    /\ MapIdle

OptIdle ==
    /\ optArgs = [k |-> "none"]
    /\ optPc = "off"
    /\ optResult = [k |-> "none"]

PoiIdle ==
    /\ poiArgs = [k |-> "none"]
    /\ poiPc = "off"
    /\ poiResult = <<>>

Init ==
    /\ now = 0
    /\ start \in StartInputs
    /\ end \in EndInputs
    /\ mainPc = "call"
    /\ attempt = [i \in ProfileIds |-> IdleAttempt]
    /\ slot = [i \in ProfileIds |-> Pending]
    /\ outcome = [status |-> "pending", routes |-> <<>>, error |-> ""]
    /\ ThrottleIdle
    /\ CostIdle
    /\ AppIdle
    /\ OptIdle
    /\ PoiIdle

\* getMultipleRoutes up to `await Promise.all`: the validation, then the
\* synchronous prefix of the three map callbacks, each of which runs getRoute
\* up to `await fetch` (timer armed, request sent).
CallGetMultipleRoutes ==
    /\ mainPc = "call"
    /\ IF InvalidCoordinates(start, end)
       THEN /\ mainPc' = "rejected"
            /\ outcome' = [status |-> "rejected", routes |-> <<>>,
                           error |-> "Invalid coordinates provided"]
            /\ UNCHANGED attempt
       ELSE /\ mainPc' = "awaiting"
            /\ attempt' = [i \in ProfileIds |->
                             [pc |-> "fetch", timerArmed |-> TRUE,
                              deadline |-> now + ROUTE_TIMEOUT, error |-> "",
                              body |-> NoBody, rank |-> 0]]
            /\ UNCHANGED outcome
    /\ UNCHANGED <<now, start, end, slot, throttleVars, costVars, appVars, optVars, poiVars>>

\* getRoute's catch block and the catch branch of the map callback: the timer
\* is cleared, the error is rewritten and rethrown, the callback builds the
\* fallback route or yields null.
GetRouteThrows(i, msg) ==
    /\ attempt' = [attempt EXCEPT ![i] =
                     [pc |-> "settled", timerArmed |-> FALSE,
                      deadline |-> @.deadline, error |-> msg, body |-> @.body,
                      rank |-> SettledCount]]
    /\ slot' = [slot EXCEPT ![i] = FallbackSlot(start, end, i)]

\* fetch resolves: the status line has arrived; clearTimeout(timeoutId)
FetchResolves(i, ok) ==
    /\ attempt[i].pc = "fetch"
    /\ IF ok
       THEN /\ attempt' = [attempt EXCEPT ![i].pc = "json",
                                          ![i].timerArmed = FALSE]
            /\ UNCHANGED slot
       ELSE GetRouteThrows(i, "API error")
    /\ UNCHANGED <<now, start, end, mainPc, outcome, throttleVars, costVars, appVars, optVars, poiVars>>

\* fetch rejects with TypeError "Failed to fetch"
FetchRejects(i) ==
    /\ attempt[i].pc = "fetch"
    /\ GetRouteThrows(i, "Network error or CORS blocked")
    /\ UNCHANGED <<now, start, end, mainPc, outcome, throttleVars, costVars, appVars, optVars, poiVars>>

\* the 5 s timer fires: controller.abort() rejects the pending fetch, or the
\* pending body read, with AbortError
TimeoutFires(i) ==
    /\ attempt[i].timerArmed
    /\ now >= attempt[i].deadline
    /\ attempt[i].pc \in {"fetch", "json"}
    /\ GetRouteThrows(i, "API timeout")
    /\ UNCHANGED <<now, start, end, mainPc, outcome, throttleVars, costVars, appVars, optVars, poiVars>>

\* response.json() settles: the body has arrived
BodyArrives(i, body) ==
    /\ attempt[i].pc = "json"
    /\ LET parsed == ParseBody(body, profiles[i].profile)
       IN  IF parsed.ok
           THEN /\ attempt' = [attempt EXCEPT ![i].pc = "settled",
                                              ![i].body = body,
                                              ![i].rank = SettledCount]
                /\ slot' = [slot EXCEPT ![i] = DecorateRoute(parsed.route, profiles[i])]
           ELSE GetRouteThrows(i, parsed.error)
    /\ UNCHANGED <<now, start, end, mainPc, outcome, throttleVars, costVars, appVars, optVars, poiVars>>

\* Promise.all(routePromises) resolves; the rest of getMultipleRoutes
PromiseAllResolves ==
    /\ mainPc = "awaiting"
    /\ \A i \in ProfileIds : slot[i] # Pending
    /\ LET validRoutes == FilterNotNull(slot)
       IN  IF validRoutes = <<>>
           THEN /\ mainPc' = "rejected"
                /\ outcome' = [status |-> "rejected", routes |-> <<>>,
                               error |-> "No routes could be calculated"]
           ELSE /\ mainPc' = "resolved"
                /\ outcome' = [status |-> "resolved", routes |-> validRoutes,
                               error |-> ""]
    /\ UNCHANGED <<now, start, end, attempt, slot, throttleVars, costVars, appVars, optVars, poiVars>>

\* time passes; a timer that is due fires before the clock moves on
TickRoutes ==
    /\ mainPc = "awaiting"
    /\ now < MaxTicks * RouteTick
    /\ \A i \in ProfileIds :
          attempt[i].timerArmed => now < attempt[i].deadline
    /\ now' = now + RouteTick
    /\ UNCHANGED <<routeVars, throttleVars, costVars, appVars, optVars, poiVars>>

Next ==
    \/ CallGetMultipleRoutes
    \/ \E i \in ProfileIds, ok \in BOOLEAN : FetchResolves(i, ok)
    \/ \E i \in ProfileIds : FetchRejects(i)
    \/ \E i \in ProfileIds : TimeoutFires(i)
    \/ \E i \in ProfileIds, body \in ProviderBodies : BodyArrives(i, body)
    \/ PromiseAllResolves
    \/ TickRoutes

Spec == Init /\ [][Next]_vars

-----------------------------------------------------------------------------
(* Properties of route acquisition.                                        *)

Settled == mainPc \in {"resolved", "rejected"}

\* a 2-element pair of finite numbers
WellFormed(c) ==
    /\ c.k = "array"
    /\ Len(c.a) = 2
    /\ \A j \in 1..2 : c.a[j].t = "num"

\* longitude within [-180, 180], latitude within [-90, 90]
InRange(c) ==
    /\ WellFormed(c)
    /\ Abs(c.a[1].v) <= 180 * 10000
    /\ Abs(c.a[2].v) <= 90 * 10000

ProviderErrors ==
    {"API error", "API timeout", "Network error or CORS blocked",
     "No route found", "Unexpected token"}

\* C1: for in-range coordinates with origin # destination and every
\* combination of provider outcomes, getMultipleRoutes resolves with exactly
\* three routes, one per profile in profile order, each with distance > 0
\* and durationMinutes > 0.
C1_ThreePositiveRoutes ==
    (Settled /\ InRange(start) /\ InRange(end) /\ start # end) =>
        /\ mainPc = "resolved"
        /\ Len(outcome.routes) = 3
        /\ \A i \in 1..Len(outcome.routes) :
              /\ outcome.routes[i].profile = profiles[i].profile
              /\ outcome.routes[i].distance > 0
              /\ outcome.routes[i].durationMinutes > 0

\* C2: getMultipleRoutes returns a non-empty list whenever both coordinates
\* are well-formed 2-element numeric pairs; it rejects only for malformed
\* input, never for well-formed coordinates.
C2_RejectsOnlyMalformed ==
    /\ mainPc = "rejected" => (~WellFormed(start) \/ ~WellFormed(end))
    /\ mainPc = "resolved" => outcome.routes # <<>>

\* C3: per profile, a successful primary attempt yields the normalized
\* provider route without isFallback; a failed attempt (error status,
\* timeout, network failure, empty route list, unreadable body) yields the
\* fallback route with isFallback = TRUE; the provider's error never reaches
\* the caller; what a profile gets depends on its own attempt only.
C3_PerProfileFallback ==
    /\ \A i \in ProfileIds :
          attempt[i].pc = "settled" =>
            LET p == profiles[i]
                fb == createFallbackRoute(start, end, p.name, p.icon, p.profile, p.speed)
            IN  IF attempt[i].error = ""
                THEN /\ slot[i] # Null
                     /\ "isFallback" \notin DOMAIN slot[i]
                     /\ slot[i].profile = p.profile
                     /\ slot[i].distance = RoundDiv(attempt[i].body.distance, 10)
                     /\ slot[i].durationMinutes = RoundDiv(attempt[i].body.duration, 60)
                     /\ slot[i].coordinates = GeometryCoordinates(attempt[i].body)
                ELSE /\ attempt[i].error \in ProviderErrors
                     /\ slot[i] # Null
                     /\ fb.ok
                     /\ slot[i] = fb.route
                     /\ slot[i].isFallback = TRUE
                     /\ slot[i].profile = p.profile
    /\ outcome.error \notin ProviderErrors
    /\ mainPc = "resolved" =>
          \A i \in ProfileIds : slot[i] # Null =>
              \E k \in 1..Len(outcome.routes) : outcome.routes[k] = slot[i]

\* C4: a fallback construction error for a profile is surfaced to the
\* caller: the profile is never silently omitted from a successful result.
C4_ConstructionErrorSurfaced ==
    mainPc = "resolved" => \A i \in ProfileIds : slot[i] # Null

\* C6: every primary attempt is bounded by its 5 s timer: no attempt is
\* still unsettled once its deadline has passed.
C6_AttemptBoundedByTimer ==
    \A i \in ProfileIds :
        attempt[i].pc \in {"fetch", "json"} => now <= attempt[i].deadline

\* C16: every route getMultipleRoutes returns, provider or fallback, has
\* type 'fastest' if its durationMinutes < 60, otherwise 'cheapest' if its
\* distance < 10 km, otherwise 'balanced', decided on that route alone.
C16_TypeByRoute ==
    mainPc = "resolved" =>
        \A k \in 1..Len(outcome.routes) :
            LET r == outcome.routes[k]
            IN  r.type = (IF r.durationMinutes < 60 THEN "fastest"
                          ELSE IF r.distance < 1000 THEN "cheapest"
                          ELSE "balanced")

\* C16 witness: one result with a provider route and a fallback route of
\* type 'fastest', and a fallback route of 60 minutes or more under 10 km
\* of type 'cheapest'
C16_Witness ==
    /\ mainPc = "resolved"
    /\ Len(outcome.routes) = 3
    /\ "isFallback" \notin DOMAIN outcome.routes[1]
    /\ outcome.routes[1].type = "fastest"
    /\ "isFallback" \in DOMAIN outcome.routes[2]
    /\ outcome.routes[2].durationMinutes >= 60
    /\ outcome.routes[2].distance < 1000
    /\ outcome.routes[2].type = "cheapest"
    /\ "isFallback" \in DOMAIN outcome.routes[3]
    /\ outcome.routes[3].type = "fastest"

\* great-circle distance between the points getMultipleRoutes was called
\* with, in decimetres
GreatCircle == calculateDistance(start.a[2].v, start.a[1].v, end.a[2].v, end.a[1].v)

\* km/h of the fallback estimate of a profile
SpeedOf(profile) ==
    CASE profile = "driving-car" -> 60
      [] profile = "foot-walking" -> 5
      [] profile = "cycling-regular" -> 15

\* C22: every fallback route among the routes returned has as distance 1.3
\* times the great-circle distance between origin and destination, to 2
\* decimals; as durationMinutes that distance divided by the speed of its
\* profile (60, 5, 15 km/h for driving, walking, cycling), in minutes,
\* rounded; as coordinates exactly [origin, destination] as the caller gave
\* them; and exactly one instruction.
C22_FallbackEstimate ==
    mainPc = "resolved" =>
        \A k \in 1..Len(outcome.routes) :
            LET r == outcome.routes[k]
            IN  "isFallback" \in DOMAIN r =>
                  /\ r.isFallback
                  /\ r.distance = RoundDiv(GreatCircle * 13, 1000)
                  /\ r.durationMinutes =
                        RoundDiv(GreatCircle * 13 * 6, 10000 * SpeedOf(r.profile))
                  /\ r.coordinates = <<start, end>>
                  /\ Len(r.instructions) = 1

\* C22 witness: the 5.6 km pair with all three profiles on their fallback:
\* 7.23 km in 7, 87 and 29 minutes
C22_Witness ==
    /\ mainPc = "resolved"
    /\ Len(outcome.routes) = 3
    /\ \A k \in 1..3 : "isFallback" \in DOMAIN outcome.routes[k]
    /\ outcome.routes[1].distance = 723
    /\ outcome.routes[1].durationMinutes = 7
    /\ outcome.routes[2].durationMinutes = 87
    /\ outcome.routes[3].durationMinutes = 29
    /\ outcome.routes[1].coordinates[1] # outcome.routes[1].coordinates[2]

\* position of a route's profile in the profile table
ProfileIndex(route) == CHOOSE i \in ProfileIds : profiles[i].profile = route.profile

\* C30: whatever the order in which the three acquisitions settle, the list
\* getMultipleRoutes returns holds the routes of the profiles that have one
\* in the order driving, walking, cycling, so that routes[0] is the route of
\* the first profile that has one.
C30_ProfileOrder ==
    mainPc = "resolved" =>
        /\ \A j, k \in 1..Len(outcome.routes) :
              j < k => ProfileIndex(outcome.routes[j]) < ProfileIndex(outcome.routes[k])
        /\ \A i \in ProfileIds :
              slot[i] # Null =>
                  \E k \in 1..Len(outcome.routes) : outcome.routes[k] = slot[i]
        /\ \A k \in 1..Len(outcome.routes) :
              outcome.routes[k] = slot[ProfileIndex(outcome.routes[k])]

\* C30 witness: cycling settled first and driving last, yet driving is
\* first in the list and cycling last
C30_Witness ==
    /\ mainPc = "resolved"
    /\ attempt[3].rank = 0
    /\ attempt[2].rank = 1
    /\ attempt[1].rank = 2
    /\ Len(outcome.routes) = 3
    /\ outcome.routes[1].profile = "driving-car"
    /\ outcome.routes[3].profile = "cycling-regular"

-----------------------------------------------------------------------------
(* Address resolution: searchPopularCities, searchAddress, reverseGeocode  *)
(* and the throttle they share (transport.js:419-579, 904-936).            *)
(* Strings are sequences of characters; a Hangul syllable is one           *)
(* character, written here in romanised form.                              *)

\* 1 second between requests
NOMINATIM_DELAY == 1000

\* POPULAR_CITIES, the first entries in source order and one international
\* entry: key, display name, coordinates (1e-4 degree)
Daehanminguk == <<",", " ", "dae", "han", "min", "guk">>
POPULAR_CITIES ==
    << [key |-> <<"seo", "ul">>,
        name |-> <<"seo", "ul", "teuk", "byeol", "si">> \o Daehanminguk,
        lat |-> 375665, lng |-> 1269780],
       [key |-> <<"seo", "ul", "si">>,
        name |-> <<"seo", "ul", "teuk", "byeol", "si">> \o Daehanminguk,
        lat |-> 375665, lng |-> 1269780],
       [key |-> <<"bu", "san">>,
        name |-> <<"bu", "san", "gwang", "yeok", "si">> \o Daehanminguk,
        lat |-> 351796, lng |-> 1290756],
       [key |-> <<"in", "cheon">>,
        name |-> <<"in", "cheon", "gwang", "yeok", "si">> \o Daehanminguk,
        lat |-> 374563, lng |-> 1267052],
       [key |-> <<"dae", "gu">>,
        name |-> <<"dae", "gu", "gwang", "yeok", "si">> \o Daehanminguk,
        lat |-> 358714, lng |-> 1286014],
       [key |-> <<"dae", "jeon">>,
        name |-> <<"dae", "jeon", "gwang", "yeok", "si">> \o Daehanminguk,
        lat |-> 363504, lng |-> 1273845],
       [key |-> <<"do", "kyo">>,
        name |-> <<"do", "kyo", ",", " ", "il", "bon">>,
        lat |-> 356762, lng |-> 1396503] >>

\* String.prototype.toLowerCase, per character
LowerChar(ch) == CASE ch = "S" -> "s" [] ch = "E" -> "e" [] OTHER -> ch
toLowerCase(str) == [k \in 1..Len(str) |-> LowerChar(str[k])]

\* String.prototype.trim
RECURSIVE TrimStart(_)
TrimStart(str) ==
    IF str # <<>> /\ Head(str) = " " THEN TrimStart(Tail(str)) ELSE str
RECURSIVE TrimEnd(_)
TrimEnd(str) ==
    IF str # <<>> /\ str[Len(str)] = " "
    THEN TrimEnd(SubSeq(str, 1, Len(str) - 1)) ELSE str
trim(str) == TrimEnd(TrimStart(str))

\* String.prototype.includes
includes(str, part) ==
    \E k \in 0..(Len(str) - Len(part)) : SubSeq(str, k + 1, k + Len(part)) = part

\* results.push({ name, lat, lng, type: 'city', source: 'popular' })
PopularResult(city) ==
    [name |-> city.name, lat |-> city.lat, lng |-> city.lng,
     type |-> "city", source |-> "popular"]

\* a slice that keeps the whole array
sliceAll(seq, n) == seq

\* Array.prototype.slice(0, n)
slice0(seq, n) == SubSeq(seq, 1, IF Len(seq) < n THEN Len(seq) ELSE n)

\* first loop of searchPopularCities: entries whose key equals the query, in
\* table order from entry k on
RECURSIVE ExactMatches(_, _)
ExactMatches(normalizedQuery, k) ==
    IF k > Len(POPULAR_CITIES) THEN <<>>
    ELSE (IF toLowerCase(POPULAR_CITIES[k].key) = normalizedQuery
          THEN <<PopularResult(POPULAR_CITIES[k])>> ELSE <<>>)
         \o ExactMatches(normalizedQuery, k + 1)

\* second loop: entries whose key or display name contains the query
RECURSIVE PartialMatches(_, _)
PartialMatches(normalizedQuery, k) ==
    IF k > Len(POPULAR_CITIES) THEN <<>>
    ELSE (IF \/ includes(toLowerCase(POPULAR_CITIES[k].key), normalizedQuery)
             \/ includes(toLowerCase(POPULAR_CITIES[k].name), normalizedQuery)
          THEN <<PopularResult(POPULAR_CITIES[k])>> ELSE <<>>)
         \o PartialMatches(normalizedQuery, k + 1)

searchPopularCities(query) ==
    IF query = <<>> THEN <<>>
    ELSE
      LET normalizedQuery == trim(toLowerCase(query))
          exact == ExactMatches(normalizedQuery, 1)
      IN  slice0(IF Len(exact) = 0 THEN PartialMatches(normalizedQuery, 1) ELSE exact, 5)

\* Bounds of the throttle model: calls in progress at one time, clock steps
MaxCallers == 2
MaxThrottleTicks == 2
ThrottleTick == NOMINATIM_DELAY \div 2

CallerIds == 1..MaxCallers

\* queries the model types: empty, one character, a curated key, a text of
\* every Korean display name, blanks only, and two texts the table lacks
Queries ==
    { <<>>, <<"dae">>, <<"seo", "ul">>, <<"dae", "han">>, <<" ", " ">>,
      <<"S", "E">>, <<"x", "y", "z">> }

\* what the geocoding service may do with a request
NominatimReplies == {"ok", "empty", "status", "network", "unparsable", "notalist"}

\* the place the service knows for a text the curated table lacks
ApiPlace ==
    [name |-> <<"x", "y", "z">>, lat |-> 100000, lng |-> 200000,
     type |-> "village", source |-> "api"]

IdleCaller ==
    [pc |-> "idle", op |-> "", query |-> <<>>, wake |-> 0, reply |-> "",
     settled |-> "", result |-> <<>>]

InitThrottle ==
    \* Date.now() is far beyond lastNominatimRequest = 0 when the page loads
    /\ now = NOMINATIM_DELAY
    /\ lastNominatimRequest = 0
    /\ callers = [c \in CallerIds |-> IdleCaller]
    /\ sends = <<>>
    /\ RoutesIdle
    /\ CostIdle
    /\ AppIdle
    /\ OptIdle
    /\ PoiIdle

\* the rate-limiting block of searchAddress (534-539) and reverseGeocode
\* (907-912) up to its first suspension: wait for the rest of the spacing,
\* or stamp lastNominatimRequest and send the request
EnterThrottle(c, op, query) ==
    LET timeSinceLastRequest == now - lastNominatimRequest
    IN  IF timeSinceLastRequest < NOMINATIM_DELAY
        THEN /\ callers' = [callers EXCEPT ![c] =
                              [pc |-> "waiting", op |-> op, query |-> query,
                               wake |-> now + (NOMINATIM_DELAY - timeSinceLastRequest),
                               reply |-> "", settled |-> "", result |-> <<>>]]
             /\ UNCHANGED <<lastNominatimRequest, sends>>
        ELSE /\ callers' = [callers EXCEPT ![c] =
                              [pc |-> "fetching", op |-> op, query |-> query,
                               wake |-> 0, reply |-> "", settled |-> "", result |-> <<>>]]
             /\ lastNominatimRequest' = now
             /\ sends' = Append(sends, now)

\* searchAddress(query) up to its first suspension or its return
searchAddress(c, query) ==
       IF query = <<>> \/ Len(query) < 2
       THEN /\ callers' = [callers EXCEPT ![c] =
                             [pc |-> "done", op |-> "search", query |-> query,
                              wake |-> 0, reply |-> "", settled |-> "resolved",
                              result |-> <<>>]]
            /\ UNCHANGED <<lastNominatimRequest, sends>>
       ELSE IF Len(searchPopularCities(query)) > 0
       THEN /\ callers' = [callers EXCEPT ![c] =
                             [pc |-> "done", op |-> "search", query |-> query,
                              wake |-> 0, reply |-> "", settled |-> "resolved",
                              result |-> searchPopularCities(query)]]
            /\ UNCHANGED <<lastNominatimRequest, sends>>
       ELSE EnterThrottle(c, "search", query)

\* a caller other than the form (the autocomplete handler) calls searchAddress
CallSearchAddress(c, query) ==
    /\ callers[c].pc = "idle"
    /\ searchAddress(c, query)
    /\ UNCHANGED <<now, routeVars, costVars, appVars, optVars, poiVars>>

\* reverseGeocode(lat, lng) up to its first suspension
CallReverseGeocode(c) ==
    /\ callers[c].pc = "idle"
    /\ EnterThrottle(c, "reverse", <<>>)
    /\ UNCHANGED <<now, routeVars, costVars, appVars, optVars, poiVars>>

\* the setTimeout of the rate-limiting block fires: the caller stamps
\* lastNominatimRequest and sends its request
ThrottleTimerFires(c) ==
    /\ callers[c].pc = "waiting"
    /\ now >= callers[c].wake
    /\ callers' = [callers EXCEPT ![c].pc = "fetching"]
    /\ lastNominatimRequest' = now
    /\ sends' = Append(sends, now)
    /\ UNCHANGED <<now, routeVars, costVars, appVars, optVars, poiVars>>

\* the try block after the request was sent (548-570, 915-931): a non-OK
\* status throws, response.json() rejects on an unparsable body, data.map
\* throws on a body that is no list
TryBlock(op, reply) ==
    IF reply \in {"status", "network", "unparsable"} THEN Thrown(reply)
    ELSE IF op = "search"
    THEN (CASE reply = "ok" -> Returned(<< ApiPlace >>)
            [] reply = "empty" -> Returned(<<>>)
            [] OTHER -> Thrown("data.map is not a function"))
    ELSE (IF reply = "ok" THEN Returned(<< "display_name" >>)
                          ELSE Returned(<< "lat, lng" >>))

\* a catch block that lets the error through
NominatimResultUncaught(op, reply) ==
    LET t == TryBlock(op, reply)
    IN  IF t.ok THEN [kind |-> "resolved", value |-> t.route]
        ELSE [kind |-> "rejected", value |-> <<>>]

\* what the call settles with: the try block's value or, from the catch
\* block (572-578, 932-935), the empty list (searchAddress) or the
\* coordinates as text (reverseGeocode)
NominatimResult(op, reply) ==
    LET t == TryBlock(op, reply)
    IN  IF t.ok THEN [kind |-> "resolved", value |-> t.route]
        ELSE [kind |-> "resolved",
              value |-> IF op = "search" THEN <<>> ELSE << "lat, lng" >>]

NominatimAnswers(c, reply) ==
    /\ callers[c].pc = "fetching"
    /\ callers' = [callers EXCEPT
                      ![c].pc = "done",
                      ![c].reply = reply,
                      ![c].settled = NominatimResult(callers[c].op, reply).kind,
                      ![c].result = NominatimResult(callers[c].op, reply).value]
    /\ UNCHANGED <<now, lastNominatimRequest, sends, routeVars, costVars, appVars, optVars, poiVars>>

\* time passes; a timer that is due fires before the clock moves on
TickThrottle ==
    /\ now < NOMINATIM_DELAY + MaxThrottleTicks * ThrottleTick
    /\ \A c \in CallerIds : callers[c].pc = "waiting" => now < callers[c].wake
    /\ now' = now + ThrottleTick
    /\ UNCHANGED <<routeVars, throttleVars, costVars, appVars, optVars, poiVars>>

\* the caller has consumed the value the call settled with
CallReturns(c) ==
    /\ callers[c].pc = "done"
    /\ callers' = [callers EXCEPT ![c] = IdleCaller]
    /\ UNCHANGED <<now, lastNominatimRequest, sends, routeVars, costVars, appVars, optVars, poiVars>>

NextThrottle ==
    \/ \E c \in CallerIds, query \in Queries : CallSearchAddress(c, query)
    \/ \E c \in CallerIds : CallReverseGeocode(c)
    \/ \E c \in CallerIds : ThrottleTimerFires(c)
    \/ \E c \in CallerIds, reply \in NominatimReplies : NominatimAnswers(c, reply)
    \/ \E c \in CallerIds : CallReturns(c)
    \/ TickThrottle

SpecThrottle == InitThrottle /\ [][NextThrottle]_vars

\* C5: in every interleaving of searchAddress and reverseGeocode calls, any
\* two consecutive requests sent to the geocoding service are at least
\* 1000 ms apart.
C5_RequestsSpaced ==
    \A k \in 1..(Len(sends) - 1) :
        sends[k + 1] - sends[k] >= NOMINATIM_DELAY

\* a searchAddress call whose query the curated table answers
CuratedHit(c) ==
    /\ callers[c].op = "search"
    /\ Len(callers[c].query) >= 2
    /\ searchPopularCities(callers[c].query) # <<>>

-----------------------------------------------------------------------------
(* Cost estimation: CostModule (transport.js:1040-1143).                   *)
(* Amounts are KRW; route.distance is the "x.xx" km text in hundredths.    *)

\* COSTS (transport.js:1040-1068)
COSTS ==
    [transport |-> [x \in {"driving-car", "foot-walking", "cycling-regular",
                           "public-transport"} |->
                      CASE x = "driving-car" -> 150
                        [] x = "foot-walking" -> 0
                        [] x = "cycling-regular" -> 0
                        [] x = "public-transport" -> 100],
     accommodation |-> [x \in {"budget", "standard", "luxury"} |->
                      CASE x = "budget" -> 50000
                        [] x = "standard" -> 100000
                        [] x = "luxury" -> 300000],
     food |-> [x \in {"budget", "standard", "luxury"} |->
                      CASE x = "budget" -> 30000
                        [] x = "standard" -> 60000
                        [] x = "luxury" -> 150000],
     activities |-> [x \in {"nature", "culture", "food", "shopping", "history",
                            "adventure"} |->
                      CASE x = "nature" -> 5000
                        [] x = "culture" -> 10000
                        [] x = "food" -> 15000
                        [] x = "shopping" -> 50000
                        [] x = "history" -> 8000
                        [] x = "adventure" -> 30000]]

\* table[key] || fallback: a missing entry is undefined, and undefined and 0
\* are both falsy
LookupOr(table, key, fallback) ==
    IF key \in DOMAIN table /\ table[key] # 0 THEN table[key] ELSE fallback

\* a destructured parameter with its default
ParamOr(p, field, default) ==
    IF field \in DOMAIN p THEN p[field] ELSE default

\* calculateTransportCost(route); a missing profile is the empty text
calculateTransportCost(route) ==
    IF route = Null THEN 0
    ELSE
      LET distance == route.distance
          profile == IF route.profile = "" THEN "driving-car" ELSE route.profile
          costPerKm == LookupOr(COSTS.transport, profile,
                                COSTS.transport["public-transport"])
      IN  RoundDiv(distance * costPerKm, 100)

\* calculateActivitiesCost(places); a missing category is the empty text
RECURSIVE calculateActivitiesCost(_)
calculateActivitiesCost(places) ==
    IF places = <<>> THEN 0
    ELSE
      LET place == Head(places)
          category == IF place.category = "" THEN "culture" ELSE place.category
      IN  LookupOr(COSTS.activities, category, 10000)
          + calculateActivitiesCost(Tail(places))

\* nights without the subtraction: one night per day
NightsPerDay(duration) == duration

\* const nights = Math.max(0, duration - 1)
Nights(duration) == Max(0, duration - 1)

\* a total that leaves the activities out
TotalWithoutActivities(transportCost, accommodationCost, foodCost, activitiesCost) ==
    transportCost + accommodationCost + foodCost

\* const total = transportCost + accommodationCost + foodCost + activitiesCost
TotalCost(transportCost, accommodationCost, foodCost, activitiesCost) ==
    transportCost + accommodationCost + foodCost + activitiesCost

\* (part / total * 100).toFixed(1): the text "NaN" for 0 / 0, otherwise the
\* percentage in tenths
PercentText(part, total) ==
    IF total = 0
    THEN [nan |-> TRUE, tenths |-> 0]
    ELSE [nan |-> FALSE, tenths |-> RoundDiv(part * 1000, total)]

calculateTripCost(p) ==
    LET route == p.route
        duration == ParamOr(p, "duration", 3)
        accommodationLevel == ParamOr(p, "accommodationLevel", "standard")
        foodLevel == ParamOr(p, "foodLevel", "standard")
        places == ParamOr(p, "places", <<>>)
        transportCost == calculateTransportCost(route)
        accommodationCost == COSTS.accommodation[accommodationLevel] * Nights(duration)
        foodCost == COSTS.food[foodLevel] * duration
        activitiesCost == calculateActivitiesCost(places)
        total == TotalCost(transportCost, accommodationCost, foodCost, activitiesCost)
    IN  [transport |-> transportCost,
         accommodation |-> accommodationCost,
         food |-> foodCost,
         activities |-> activitiesCost,
         total |-> total,
         breakdown |->
           [transportPercent |-> PercentText(transportCost, total),
            accommodationPercent |-> PercentText(accommodationCost, total),
            foodPercent |-> PercentText(foodCost, total),
            activitiesPercent |-> PercentText(activitiesCost, total)]]

\* Bounds of the cost model: trip length in days, number of places
MaxDuration == 3
MaxPlaces == 2

Levels == {"budget", "standard", "luxury"}

\* routes priced by the model: none, and 0 km, 0.35 km, 10 km and 328.8 km
\* with each profile, an unlisted profile and no profile
CostRoutes ==
    {Null} \cup
    [distance : {0, 35, 1000, 32880},
     profile : {"driving-car", "foot-walking", "cycling-regular",
                "public-transport", "hovercraft", ""}]

\* places with a listed category, an unlisted one and none
CostPlaces ==
    UNION {[1..n -> [category : {"nature", "shopping", "zoo", ""}]] : n \in 0..MaxPlaces}

CostParams ==
    [route : CostRoutes, duration : 0..MaxDuration, accommodationLevel : Levels,
     foodLevel : Levels, places : CostPlaces]
    \cup [route : CostRoutes]

InitCost ==
    /\ now = 0
    /\ params \in CostParams
    /\ costPc = "call"
    /\ costs = [k |-> "none"]
    /\ RoutesIdle
    /\ ThrottleIdle
    /\ AppIdle
    /\ OptIdle
    /\ PoiIdle

\* one call of CostModule.calculateTripCost(params)
CalculateTripCost ==
    /\ costPc = "call"
    /\ costs' = calculateTripCost(params)
    /\ costPc' = "done"
    /\ UNCHANGED <<now, params, routeVars, throttleVars, appVars, optVars, poiVars>>

NextCost == CalculateTripCost

SpecCost == InitCost /\ [][NextCost]_vars

\* the arguments as calculateTripCost reads them
CostRoute == params.route
CostDuration == ParamOr(params, "duration", 3)
CostAccommodationLevel == ParamOr(params, "accommodationLevel", "standard")
CostFoodLevel == ParamOr(params, "foodLevel", "standard")
CostPlaceList == ParamOr(params, "places", <<>>)

\* the rate table as C7 states it: 150 for driving, zero for walking and
\* cycling, the public-transport rate for a profile the table lacks
C7_Rate(profile) ==
    CASE profile \in {"driving-car", ""} -> 150
      [] profile \in {"foot-walking", "cycling-regular"} -> 0
      [] OTHER -> 100

\* C7: calculateTransportCost(route) = round(distance_km * rate(profile)),
\* so a walking or cycling route of any distance costs 0.
C7_TransportRate ==
    (costPc = "done" /\ CostRoute # Null) =>
        costs.transport = RoundDiv(CostRoute.distance * C7_Rate(CostRoute.profile), 100)

\* C8: each percentage is component / total * 100 to one decimal, and every
\* percentage is 0, never NaN, when the total is 0.
C8_Percentages ==
    costPc = "done" =>
        \A f \in {"transport", "accommodation", "food", "activities"} :
            LET pct == CASE f = "transport" -> costs.breakdown.transportPercent
                         [] f = "accommodation" -> costs.breakdown.accommodationPercent
                         [] f = "food" -> costs.breakdown.foodPercent
                         [] f = "activities" -> costs.breakdown.activitiesPercent
            IN  /\ ~pct.nan
                /\ pct.tenths = IF costs.total = 0 THEN 0
                                ELSE RoundDiv(costs[f] * 1000, costs.total)

\* C9: for all valid inputs the returned total equals transport +
\* accommodation + food + activities of the same record.
C9_TotalIsSum ==
    costPc = "done" =>
        costs.total = costs.transport + costs.accommodation + costs.food
                      + costs.activities

\* C9 witness: a priced route, zero nights (duration 1) and two places
C9_Witness ==
    /\ costPc = "done"
    /\ CostRoute # Null /\ costs.transport > 0
    /\ CostDuration = 1 /\ costs.accommodation = 0
    /\ Len(CostPlaceList) = 2 /\ costs.activities > 0
    /\ costs.total > costs.transport + costs.food

\* C10: accommodation = nightlyRate(level) * max(0, duration - 1), food =
\* dailyRate(level) * duration; duration 3 at standard levels without places
\* gives 200000, 180000, 0 and total 380000 + transport.
C10_AccommodationAndFood ==
    costPc = "done" =>
        /\ costs.accommodation =
             COSTS.accommodation[CostAccommodationLevel]
             * (IF CostDuration >= 1 THEN CostDuration - 1 ELSE 0)
        /\ costs.food = COSTS.food[CostFoodLevel] * CostDuration
        /\ (/\ CostDuration = 3
            /\ CostAccommodationLevel = "standard"
            /\ CostFoodLevel = "standard"
            /\ CostPlaceList = <<>>) =>
               /\ costs.accommodation = 200000
               /\ costs.food = 180000
               /\ costs.activities = 0
               /\ costs.total = 380000 + costs.transport

\* C10 witness: the example (3 days, standard, no places) with a driving route
C10_Witness ==
    /\ costPc = "done"
    /\ "duration" \in DOMAIN params /\ params.duration = 3
    /\ params.accommodationLevel = "standard" /\ params.foodLevel = "standard"
    /\ params.places = <<>>
    /\ CostRoute # Null /\ CostRoute.profile = "driving-car"
    /\ costs.accommodation = 200000 /\ costs.food = 180000
    /\ costs.total = 380000 + costs.transport /\ costs.transport > 0

-----------------------------------------------------------------------------
(* The application controller TravelApp: form submission, validation and   *)
(* the search history (handleFormSubmit, validateForm, saveToHistory,      *)
(* deleteHistoryItem, loadHistoryItem, handleClear).  A history entry      *)
(* keeps its id, departure and destination; date, duration and             *)
(* preferences are copied through unchanged and left out.                  *)

\* Bound of the form-validation model: the form is submitted again only
\* while the history holds fewer entries than this
MaxSaved == 1
HISTORY_LIMIT == 5

\* the submission in flight and one more submit event during it; each runs
\* its searchAddress calls in the caller slot of its number
SubIds == {1, 2}
Fields == {"departure", "destination"}

\* texts the user types: nothing, a curated key, a text the curated table
\* lacks
AppTexts == { <<>>, <<"seo", "ul">>, <<"x", "y", "z">> }

IdleSub == [pc |-> "idle", end |-> "", routesOk |-> FALSE, zeroTrip |-> FALSE]

\* { lat: results[0].lat, lng: results[0].lng, name: results[0].name }
PlaceOf(result) == [lat |-> result.lat, lng |-> result.lng, name |-> result.name]

InitApp ==
    /\ now = NOMINATIM_DELAY
    /\ lastNominatimRequest = 0
    /\ callers = [c \in CallerIds |-> IdleCaller]
    /\ sends = <<>>
    /\ state = [departure |-> Null, destination |-> Null]
    /\ inputs = [departure |-> <<>>, destination |-> <<>>]
    /\ subs = [c \in SubIds |-> IdleSub]
    /\ history = <<>>
    /\ loading = FALSE
    /\ AcIdle
    /\ MapIdle
    /\ RoutesIdle
    /\ CostIdle
    /\ OptIdle
    /\ PoiIdle

\* the user types into the departure or the destination input
EditInput(field, text) ==
    /\ inputs[field] # text
    /\ inputs' = [inputs EXCEPT ![field] = text]
    /\ UNCHANGED <<now, state, subs, history, loading,
                   routeVars, throttleVars, costVars, optVars, poiVars, acVars, mapVars>>

\* validateForm returns false (after its alert): handleFormSubmit returns
\* before showLoading and calculateRoutes
ValidationFails(s, st, inp) ==
    /\ state' = st
    /\ inputs' = inp
    /\ subs' = [subs EXCEPT ![s] = [pc |-> "done", end |-> "invalid", routesOk |-> FALSE, zeroTrip |-> FALSE]]
    /\ callers' = [callers EXCEPT ![s] = IdleCaller]
    /\ UNCHANGED <<lastNominatimRequest, sends, loading>>

\* validateForm returns true: showLoading(true), getFormData, and
\* calculateRoutes up to `await getMultipleRoutes` (part_000:171-195, 371-374);
\* a place cleared meanwhile makes calculateRoutes throw a TypeError, which
\* the catch of handleFormSubmit answers by hiding the overlay
ValidationPasses(s, st, inp) ==
    /\ state' = st
    /\ inputs' = inp
    /\ callers' = [callers EXCEPT ![s] = IdleCaller]
    /\ IF st.departure = Null \/ st.destination = Null
       THEN /\ loading' = FALSE
            /\ subs' = [subs EXCEPT ![s] = [pc |-> "done", end |-> "error",
                                            routesOk |-> FALSE, zeroTrip |-> FALSE]]
       ELSE /\ loading' = TRUE
            /\ subs' = [subs EXCEPT ![s] =
                          [pc |-> "routes", end |-> "", routesOk |-> FALSE,
                           zeroTrip |-> (/\ st.departure.lat = st.destination.lat
                                         /\ st.departure.lng = st.destination.lng)]]
    /\ UNCHANGED <<lastNominatimRequest, sends>>

\* validateForm from `// Check destination` on (part_000:306-343)
ValidateDestination(s, st, inp) ==
    IF st.destination # Null THEN ValidationPasses(s, st, inp)
    ELSE IF trim(inp.destination) = <<>> THEN ValidationFails(s, st, inp)
    ELSE /\ searchAddress(s, trim(inp.destination))
         /\ state' = st
         /\ inputs' = inp
         /\ subs' = [subs EXCEPT ![s] = [pc |-> "search_destination", end |-> "",
                                         routesOk |-> FALSE, zeroTrip |-> FALSE]]
         /\ UNCHANGED loading

\* validateForm from `// Check departure` on (part_000:267-304)
ValidateDeparture(s, st, inp) ==
    IF st.departure # Null THEN ValidateDestination(s, st, inp)
    ELSE IF trim(inp.departure) = <<>> THEN ValidationFails(s, st, inp)
    ELSE /\ searchAddress(s, trim(inp.departure))
         /\ state' = st
         /\ inputs' = inp
         /\ subs' = [subs EXCEPT ![s] = [pc |-> "search_departure", end |-> "",
                                         routesOk |-> FALSE, zeroTrip |-> FALSE]]
         /\ UNCHANGED loading

\* a submit event: handleFormSubmit up to its first suspension
Submit(s) ==
    /\ subs[s].pc = "idle"
    /\ ValidateDeparture(s, state, inputs)
    /\ UNCHANGED <<now, history, routeVars, costVars, optVars, poiVars, acVars, mapVars>>

\* `await TransportModule.searchAddress(...)` of validateForm resumes: the
\* first result becomes the place, an empty list or an error ends validation
SearchReturns(s) ==
    /\ subs[s].pc \in {"search_departure", "search_destination"}
    /\ callers[s].pc = "done"
    /\ LET field == IF subs[s].pc = "search_departure" THEN "departure"
                    ELSE "destination"
           results == callers[s].result
       IN  IF callers[s].settled = "rejected" \/ Len(results) = 0
           THEN ValidationFails(s, state, inputs)
           ELSE LET st == [state EXCEPT ![field] = PlaceOf(results[1])]
                    inp == [inputs EXCEPT ![field] = results[1].name]
                IN  IF field = "departure"
                    THEN ValidateDestination(s, st, inp)
                    ELSE ValidationPasses(s, st, inp)
    /\ UNCHANGED <<now, history, routeVars, costVars, optVars, poiVars, acVars, mapVars>>

\* getMultipleRoutes resolves: the rest of calculateRoutes (part_000:376-405,
\* which reads state.departure and state.destination again), then
\* searchPlaces up to `await searchPOIs`; a TypeError from a cleared state
\* reaches the catch of handleFormSubmit, which hides the overlay
RoutesResolve(s) ==
    /\ subs[s].pc = "routes"
    /\ IF state.departure # Null /\ state.destination # Null
       THEN /\ subs' = [subs EXCEPT ![s].pc = "places", ![s].routesOk = TRUE]
            /\ UNCHANGED loading
       ELSE /\ subs' = [subs EXCEPT ![s].pc = "done", ![s].end = "error"]
            /\ loading' = FALSE
    /\ UNCHANGED <<now, state, inputs, history,
                   routeVars, throttleVars, costVars, optVars, poiVars, acVars, mapVars>>

\* getMultipleRoutes rejects (no provider route and no fallback route: the
\* two ends coincide): catch of handleFormSubmit (part_000:238-254)
RoutesReject(s) ==
    /\ subs[s].pc = "routes"
    /\ subs[s].zeroTrip
    /\ subs' = [subs EXCEPT ![s].pc = "done", ![s].end = "error"]
    /\ loading' = FALSE
    /\ UNCHANGED <<now, state, inputs, history,
                   routeVars, throttleVars, costVars, optVars, poiVars, acVars, mapVars>>

\* the item saveToHistory builds (part_000:870-878)
HistoryItem(st, t) ==
    [id |-> t, departure |-> st.departure, destination |-> st.destination]

\* a save that appends the new item behind the stored ones
saveToHistoryAtEnd(st, t, h) ==
    IF st.departure = Null \/ st.destination = Null THEN h
    ELSE slice0(h \o <<HistoryItem(st, t)>>, HISTORY_LIMIT)

\* saveToHistory (part_000:867-886)
saveToHistory(st, t, h) ==
    IF st.departure = Null \/ st.destination = Null THEN h
    ELSE slice0(<<HistoryItem(st, t)>> \o h, HISTORY_LIMIT)

\* searchPOIs resolves: calculateCosts, renderResults, saveToHistory,
\* updateURL, showLoading(false) (part_000:205-236)
PlacesSettle(s) ==
    /\ subs[s].pc = "places"
    /\ history' = saveToHistory(state, now, history)
    /\ loading' = FALSE
    /\ subs' = [subs EXCEPT ![s].pc = "done", ![s].end = "ok"]
    /\ UNCHANGED <<now, state, inputs,
                   routeVars, throttleVars, costVars, optVars, poiVars, acVars, mapVars>>

\* a catch block that leaves the overlay as it is
RenderFailsOverlayKept(s) ==
    /\ subs[s].pc = "places"
    /\ subs' = [subs EXCEPT ![s].pc = "done", ![s].end = "error"]
    /\ UNCHANGED <<now, state, inputs, history, loading,
                   routeVars, throttleVars, costVars, optVars, poiVars, acVars, mapVars>>

\* searchPOIs resolves and renderResults (or saveToHistory, updateURL,
\* scrollToResults) throws: catch of handleFormSubmit (part_000:241-257)
RenderFails(s) ==
    /\ subs[s].pc = "places"
    /\ subs' = [subs EXCEPT ![s].pc = "done", ![s].end = "error"]
    /\ loading' = FALSE
    /\ UNCHANGED <<now, state, inputs, history,
                   routeVars, throttleVars, costVars, optVars, poiVars, acVars, mapVars>>

\* handleFormSubmit has returned
SubmitEnds(s) ==
    /\ subs[s].pc = "done"
    /\ subs' = [subs EXCEPT ![s] = IdleSub]
    /\ UNCHANGED <<now, state, inputs, history, loading,
                   routeVars, throttleVars, costVars, optVars, poiVars, acVars, mapVars>>

\* handleClear (part_000:725-749)
HandleClear ==
    /\ state.departure # Null \/ state.destination # Null
       \/ inputs # [departure |-> <<>>, destination |-> <<>>]
    /\ state' = [departure |-> Null, destination |-> Null]
    /\ inputs' = [departure |-> <<>>, destination |-> <<>>]
    /\ UNCHANGED <<now, subs, history, loading,
                   routeVars, throttleVars, costVars, optVars, poiVars, acVars, mapVars>>

\* the ids the rendered history list offers (data-id of its items)
HistoryIds == {history[k].id : k \in 1..Len(history)}

\* Array.prototype.filter(h => h.id !== id)
RECURSIVE FilterOtherIds(_, _)
FilterOtherIds(h, id) ==
    IF h = <<>> THEN <<>>
    ELSE (IF Head(h).id # id THEN <<Head(h)>> ELSE <<>>) \o FilterOtherIds(Tail(h), id)

\* deleteHistoryItem(id) (part_000:978-983)
DeleteHistoryItem(id) ==
    /\ history' = FilterOtherIds(history, id)
    /\ UNCHANGED <<now, state, inputs, subs, loading,
                   routeVars, throttleVars, costVars, optVars, poiVars, acVars, mapVars>>

\* Array.prototype.find(h => h.id === id): index of the first match
FindId(h, id) == CHOOSE k \in 1..Len(h) :
                    /\ h[k].id = id
                    /\ \A j \in 1..(k - 1) : h[j].id # id

\* loadHistoryItem(id) (part_000:948-973)
LoadHistoryItem(id) ==
    /\ LET item == history[FindId(history, id)]
       IN  /\ state' = [departure |-> item.departure, destination |-> item.destination]
           /\ inputs' = [departure |-> item.departure.name,
                         destination |-> item.destination.name]
    /\ UNCHANGED <<now, subs, history, loading,
                   routeVars, throttleVars, costVars, optVars, poiVars, acVars, mapVars>>

\* a submit event of the form-validation model: one submission at a time
SubmitForm(s) ==
    /\ \A t \in SubIds : subs[t].pc = "idle"
    /\ Len(history) < MaxSaved
    /\ Submit(s)

\* a searchAddress call of validateForm has settled and validateForm has
\* not resumed yet: it resumes in a microtask, before any event, timer or
\* response is handled
ContinuationPending ==
    \E s \in SubIds :
        /\ subs[s].pc \in {"search_departure", "search_destination"}
        /\ callers[s].pc = "done"

NextApp ==
    \/ \E s \in SubIds : SearchReturns(s)
    \/ /\ ~ContinuationPending
       /\ \/ \E field \in Fields, text \in AppTexts : EditInput(field, text)
          \/ \E s \in SubIds : SubmitForm(s)
          \/ \E s \in SubIds : RoutesResolve(s)
          \/ \E s \in SubIds : RoutesReject(s)
          \/ \E s \in SubIds : PlacesSettle(s)
          \/ \E s \in SubIds : RenderFails(s)
          \/ \E s \in SubIds : SubmitEnds(s)
          \/ HandleClear
          \/ \E id \in HistoryIds : DeleteHistoryItem(id)
          \/ \E id \in HistoryIds : LoadHistoryItem(id)
          \/ \E c \in CallerIds : ThrottleTimerFires(c)
          \/ \E c \in CallerIds, reply \in NominatimReplies : NominatimAnswers(c, reply)
          \/ TickThrottle

SpecApp == InitApp /\ [][NextApp]_vars

\* every await of a submission that has shown the overlay settles:
\* getMultipleRoutes within its timers, searchPOIs when its fetch does
SpecAppLive ==
    /\ SpecApp
    /\ \A s \in SubIds :
          /\ WF_vars(RoutesResolve(s) \/ RoutesReject(s))
          /\ WF_vars(PlacesSettle(s) \/ RenderFails(s))

\* C28: whenever a submission passes validation and goes on to calculate
\* routes, the place stored for each field is the one belonging to the text
\* then in that field: a stored place is never used for a field whose text
\* was edited after the place was stored.
C28_SelectionMatchesText ==
    [][\A s \in SubIds :
          (subs[s].pc # "routes" /\ subs'[s].pc = "routes") =>
              \A field \in Fields :
                  /\ state'[field] # Null
                  /\ state'[field].name = inputs'[field]]_vars

\* the submission is between showLoading(true) and its end
ShowsOverlay(s) == subs[s].pc \in {"routes", "places"}

-----------------------------------------------------------------------------
(* The search history under overlapping submissions: places come from the  *)
(* autocomplete lists, so validation passes without a search, and the      *)
(* clock advances by single milliseconds.                                  *)

\* Bound of the history model: milliseconds the clock advances
MaxMilliseconds == 1

\* the curated entry for the key of Seoul as a search result
SeoulResult == PopularResult(POPULAR_CITIES[1])

\* what the autocomplete lists offer: the departure list a curated city and
\* a place of the geocoding service, the destination list the curated city
Offered(field) ==
    IF field = "departure" THEN {SeoulResult, ApiPlace} ELSE {SeoulResult}

\* click on an item of an autocomplete list (part_000:689-702)
PickPlace(field, result) ==
    /\ state[field] # PlaceOf(result)
    /\ state' = [state EXCEPT ![field] = PlaceOf(result)]
    /\ inputs' = [inputs EXCEPT ![field] = result.name]
    /\ UNCHANGED <<now, subs, history, loading,
                   routeVars, throttleVars, costVars, optVars, poiVars, acVars, mapVars>>

\* Date.now() moves on by a millisecond
TickMillisecond ==
    /\ now < NOMINATIM_DELAY + MaxMilliseconds
    /\ now' = now + 1
    /\ UNCHANGED <<routeVars, throttleVars, costVars, appVars, optVars, poiVars>>

NextHistory ==
    \/ \E field \in Fields : \E result \in Offered(field) : PickPlace(field, result)
    \/ \E s \in SubIds : Submit(s)
    \/ \E s \in SubIds : RoutesResolve(s)
    \/ \E s \in SubIds : RoutesReject(s)
    \/ \E s \in SubIds : PlacesSettle(s)
    \/ \E s \in SubIds : RenderFails(s)
    \/ \E s \in SubIds : SubmitEnds(s)
    \/ HandleClear
    \/ \E id \in HistoryIds : DeleteHistoryItem(id)
    \/ \E id \in HistoryIds : LoadHistoryItem(id)
    \/ TickMillisecond

SpecHistory == InitApp /\ [][NextHistory]_vars

\* C17: the stored history always holds at most 5 entries, newest first;
\* a save puts the new entry in front of the stored ones and, when 5 are
\* stored, drops exactly the oldest; an entry is added only in the step of
\* a submission whose route calculation succeeded.
C17_HistoryCappedNewestFirst ==
    /\ [](/\ Len(history) <= 5
          /\ \A k \in 1..(Len(history) - 1) : history[k].id >= history[k + 1].id)
    /\ [][(history' # history /\ Len(history') >= Len(history)) =>
            /\ \E s \in SubIds :
                  /\ subs[s].pc = "places"
                  /\ subs[s].routesOk
                  /\ subs'[s].end = "ok"
            /\ Len(history') = (IF Len(history) < 5 THEN Len(history) + 1 ELSE 5)
            /\ history'[1].id = now
            /\ history'[1].departure = state.departure
            /\ history'[1].destination = state.destination
            /\ \A k \in 2..Len(history') : history'[k] = history[k - 1]]_vars

\* C17 witness: a submission has just ended with its save, and the history
\* holds 5 entries of two different departures, the first newer than the last
C17_Witness ==
    /\ Len(history) = 5
    /\ \E s \in SubIds : subs[s].pc = "done" /\ subs[s].end = "ok"
    /\ history[1].id = now
    /\ history[1].id > history[5].id
    /\ history[1].departure # history[2].departure

\* C18: the ids of the stored history entries are pairwise different, for
\* any timing of successive saves.
C18_UniqueIds ==
    \A j, k \in 1..Len(history) : j # k => history[j].id # history[k].id

\* the ways the geocoding service fails
ServiceFailures == {"status", "network", "unparsable", "notalist"}

\* C12: searchAddress never rejects; after every failure of the geocoding
\* service (non-OK status, network failure, unparsable or non-list body) it
\* resolves to the empty list, and validateForm answers an empty list by
\* ending the submission before the overlay is shown and before the route
\* calculation starts.
C12_FailureGivesEmptyList ==
    /\ [](\A c \in CallerIds :
            (callers[c].op = "search" /\ callers[c].pc = "done") =>
               /\ callers[c].settled = "resolved"
               /\ callers[c].reply \in ServiceFailures => callers[c].result = <<>>)
    /\ [][\A s \in SubIds :
            (/\ subs[s].pc \in {"search_departure", "search_destination"}
             /\ callers[s].pc = "done"
             /\ callers[s].result = <<>>
             /\ subs'[s] # subs[s])
               => /\ subs'[s].pc = "done"
                  /\ subs'[s].end = "invalid"
                  /\ ~subs'[s].routesOk
                  /\ UNCHANGED <<loading, history, state>>]_vars

\* C12 witness: a request for the departure text went out, the service
\* failed, and the submission has ended as invalid with no place set and
\* the overlay hidden
C12_Witness ==
    \E s \in SubIds :
        /\ subs[s].pc = "done" /\ subs[s].end = "invalid"
        /\ sends # <<>>
        /\ inputs.departure = <<"x", "y", "z">>
        /\ state.departure = Null
        /\ ~loading
        /\ history = <<>>

-----------------------------------------------------------------------------
(* Route selection: calculateRouteCost and getOptimalRoute                 *)
(* (transport.js:856-881, 972-997).  A score durationMinutes / 60 +        *)
(* transport / 10000 is kept as the integer 30000 times as large.          *)

\* calculateRouteCost(route) (transport.js:856-881)
calculateRouteCost(route) ==
    LET distance == route.distance
    IN  [transport |->
           CASE route.profile = "driving-car" -> RoundDiv(distance * 150, 100)
             [] route.profile = "foot-walking" -> 0
             [] route.profile = "cycling-regular" -> 0
             [] OTHER -> RoundDiv(distance * 1000, 10 * 100),
         distance |-> distance]

\* a comparison that also replaces the best route on a tie
IsFasterOrEqual(current, best) ==
    current.durationMinutes <= best.durationMinutes

\* current.durationMinutes < best.durationMinutes (transport.js:978)
IsFaster(current, best) ==
    current.durationMinutes < best.durationMinutes

\* currentCost < bestCost (transport.js:983-985)
IsCheaper(current, best) ==
    LET bestCost == calculateRouteCost(best).transport
        currentCost == calculateRouteCost(current).transport
    IN  currentCost < bestCost

\* durationMinutes / 60 + calculateRouteCost(route).transport / 10000
RouteScore(route) ==
    route.durationMinutes * 500 + calculateRouteCost(route).transport * 3

\* currentScore < bestScore (transport.js:992-994)
IsBetterScore(current, best) ==
    LET bestScore == RouteScore(best)
        currentScore == RouteScore(current)
    IN  currentScore < bestScore

\* the callback of routes.reduce for a criterion: current replaces best
Replaces(criteria, current, best) ==
    CASE criteria = "fastest" -> IsFaster(current, best)
      [] criteria = "cheapest" -> IsCheaper(current, best)
      [] OTHER -> IsBetterScore(current, best)

\* Array.prototype.reduce without an initial value, from element k on
RECURSIVE ReduceRoutes(_, _, _, _)
ReduceRoutes(routes, criteria, k, best) ==
    IF k > Len(routes) THEN best
    ELSE ReduceRoutes(routes, criteria, k + 1,
                      IF Replaces(criteria, routes[k], best) THEN routes[k] ELSE best)

\* getOptimalRoute(routes, criteria = 'balanced'); a criterion that is not
\* passed is "undefined", a list is Arr(..) and one that is not passed Null
getOptimalRoute(routes, criteria) ==
    IF routes = Null \/ routes.a = <<>> THEN Null
    ELSE ReduceRoutes(routes.a, IF criteria = "undefined" THEN "balanced" ELSE criteria,
                      2, routes.a[1])

\* Bounds of the selection model: routes in the list
MaxRoutes == 3

\* routes of the model: two driving routes of one duration, a walking and
\* a cycling route (both free of charge), a short slow cycling route and a
\* route of a profile without a listed rate
OptRoutes ==
    { [name |-> "car-a", profile |-> "driving-car", distance |-> 1000, durationMinutes |-> 15],
      [name |-> "car-b", profile |-> "driving-car", distance |-> 2000, durationMinutes |-> 15],
      [name |-> "walk", profile |-> "foot-walking", distance |-> 1000, durationMinutes |-> 120],
      [name |-> "bike", profile |-> "cycling-regular", distance |-> 1000, durationMinutes |-> 40],
      [name |-> "bike-short", profile |-> "cycling-regular", distance |-> 200, durationMinutes |-> 123],
      [name |-> "bus", profile |-> "public-transport", distance |-> 100, durationMinutes |-> 3] }

OptCriteria == {"fastest", "cheapest", "balanced", "shortest", "undefined"}

OptLists ==
    {Null} \cup {Arr(l) : l \in UNION {[1..n -> OptRoutes] : n \in 0..MaxRoutes}}

InitOpt ==
    /\ now = 0
    /\ optArgs \in [routes : OptLists, criteria : OptCriteria]
    /\ optPc = "call"
    /\ optResult = [k |-> "none"]
    /\ RoutesIdle
    /\ ThrottleIdle
    /\ CostIdle
    /\ AppIdle
    /\ PoiIdle

GetOptimalRoute ==
    /\ optPc = "call"
    /\ optResult' = getOptimalRoute(optArgs.routes, optArgs.criteria)
    /\ optPc' = "done"
    /\ UNCHANGED <<now, optArgs, routeVars, throttleVars, costVars, appVars, poiVars>>

NextOpt == GetOptimalRoute

SpecOpt == InitOpt /\ [][NextOpt]_vars

\* the call has returned for a list with at least one route
OptChosen == optPc = "done" /\ optArgs.routes # Null /\ optArgs.routes.a # <<>>

\* C13: getOptimalRoute(routes, 'fastest') on a non-empty list returns a
\* route whose durationMinutes is <= that of every route of the list, the
\* earliest in list order among those of minimal duration.
C13_FastestIsEarliestMinimum ==
    (OptChosen /\ optArgs.criteria = "fastest") =>
        LET list == optArgs.routes.a
        IN  \E k \in 1..Len(list) :
              /\ optResult = list[k]
              /\ \A j \in 1..Len(list) : list[k].durationMinutes <= list[j].durationMinutes
              /\ \A j \in 1..(k - 1) : list[k].durationMinutes < list[j].durationMinutes

\* C13 witness: two driving routes tie for the minimum behind a slower
\* route; the first of the two is returned
C13_Witness ==
    /\ optPc = "done"
    /\ optArgs.criteria = "fastest"
    /\ optArgs.routes # Null
    /\ Len(optArgs.routes.a) = 3
    /\ optArgs.routes.a[1].name = "walk"
    /\ optArgs.routes.a[2].name = "car-b"
    /\ optArgs.routes.a[3].name = "car-a"
    /\ optResult.name = "car-b"

\* C14: getOptimalRoute(routes, 'cheapest') on a non-empty list returns the
\* earliest route whose transport cost, as the cost estimation engine
\* computes it (CostModule.calculateTransportCost), is minimal over the list.
C14_CheapestByCostEngine ==
    (OptChosen /\ optArgs.criteria = "cheapest") =>
        LET list == optArgs.routes.a
        IN  \E k \in 1..Len(list) :
              /\ optResult = list[k]
              /\ \A j \in 1..Len(list) :
                    calculateTransportCost(list[k]) <= calculateTransportCost(list[j])
              /\ \A j \in 1..(k - 1) :
                    calculateTransportCost(list[k]) < calculateTransportCost(list[j])

\* durationMinutes / 60 + transportCost / 10000 with the transport cost of
\* the cost estimation engine, 30000 times as large
EngineScore(route) ==
    route.durationMinutes * 500 + calculateTransportCost(route) * 3

\* C15: with criterion 'balanced', no criterion or an unrecognized one,
\* getOptimalRoute returns the earliest route minimizing durationMinutes/60
\* + transportCost/10000; with an empty or missing list it returns null for
\* every criterion.
C15_BalancedByScore ==
    /\ (OptChosen /\ optArgs.criteria \notin {"fastest", "cheapest"}) =>
          LET list == optArgs.routes.a
          IN  \E k \in 1..Len(list) :
                /\ optResult = list[k]
                /\ \A j \in 1..Len(list) : EngineScore(list[k]) <= EngineScore(list[j])
                /\ \A j \in 1..(k - 1) : EngineScore(list[k]) < EngineScore(list[j])
    /\ (optPc = "done" /\ ~OptChosen) => optResult = Null

\* C26: for every route the two transport-cost computations give the same
\* amount, calculateRouteCost(route).transport =
\* calculateTransportCost(route), so the route getOptimalRoute returns as
\* cheapest has the least cost of the list as the cost module computes it.
C26_TransportCostsAgree ==
    (optPc = "done" /\ optArgs.routes # Null) =>
        LET list == optArgs.routes.a
        IN  /\ \A k \in 1..Len(list) :
                  calculateRouteCost(list[k]).transport = calculateTransportCost(list[k])
            /\ (OptChosen /\ optArgs.criteria = "cheapest") =>
                  \A k \in 1..Len(list) :
                      calculateTransportCost(optResult) <= calculateTransportCost(list[k])

-----------------------------------------------------------------------------
(* RecommendModule: places of interest from the Overpass service.          *)

MAX_RESULTS == 15

\* Object.keys(PREFERENCE_TAGS), in insertion order
PreferenceKeys == <<"nature", "culture", "food", "shopping", "history", "adventure">>

\* PREFERENCE_TAGS: each 'key=value' string as the pair split('=') yields
PREFERENCE_TAGS ==
    [nature    |-> << <<"tourism", "viewpoint">>, <<"natural", "beach">>,
                      <<"natural", "peak">>, <<"leisure", "park">>,
                      <<"leisure", "nature_reserve">>, <<"natural", "waterfall">> >>,
     culture   |-> << <<"tourism", "museum">>, <<"tourism", "gallery">>,
                      <<"tourism", "artwork">>, <<"amenity", "theatre">>,
                      <<"amenity", "arts_centre">>, <<"historic", "monument">> >>,
     food      |-> << <<"amenity", "restaurant">>, <<"amenity", "cafe">>,
                      <<"amenity", "fast_food">>, <<"amenity", "food_court">>,
                      <<"shop", "bakery">> >>,
     shopping  |-> << <<"shop", "mall">>, <<"shop", "department_store">>,
                      <<"shop", "supermarket">>, <<"amenity", "marketplace">>,
                      <<"shop", "clothes">> >>,
     history   |-> << <<"historic", "castle">>, <<"historic", "archaeological_site">>,
                      <<"historic", "ruins">>, <<"historic", "memorial">>,
                      <<"tourism", "attraction">>, <<"historic", "building">> >>,
     adventure |-> << <<"sport", "climbing">>, <<"sport", "skiing">>,
                      <<"leisure", "sports_centre">>, <<"leisure", "adventure_park">>,
                      <<"tourism", "zoo">>, <<"tourism", "theme_park">> >>]

PREFERENCE_ICONS ==
    [nature |-> "fa-tree", culture |-> "fa-landmark", food |-> "fa-utensils",
     shopping |-> "fa-shopping-bag", history |-> "fa-monument",
     adventure |-> "fa-mountain"]

\* the tags object of an element; "" stands for a key the object lacks
NoTags ==
    [name |-> "", nameEn |-> "", tourism |-> "", natural |-> "", leisure |-> "",
     amenity |-> "", shop |-> "", historic |-> "", sport |-> ""]

\* inner loop of determineCategory: tags[key] === value for one of the
\* preference's tag strings
MatchesPreference(tags, preference) ==
    LET prefTags == PREFERENCE_TAGS[preference]
    IN  \E i \in 1..Len(prefTags) :
            /\ tags[prefTags[i][1]] # ""
            /\ tags[prefTags[i][1]] = prefTags[i][2]

\* determineCategory from the k-th preference on; "null" is its null
RECURSIVE determineCategoryFrom(_, _, _)
determineCategoryFrom(tags, preferences, k) ==
    IF k > Len(preferences) THEN "null"
    ELSE IF preferences[k] \notin DOMAIN PREFERENCE_TAGS
         THEN determineCategoryFrom(tags, preferences, k + 1)
    ELSE IF MatchesPreference(tags, preferences[k]) THEN preferences[k]
    ELSE determineCategoryFrom(tags, preferences, k + 1)

determineCategory(tags, preferences) == determineCategoryFrom(tags, preferences, 1)

\* element.tags.name || element.tags['name:en'] || 'Unnamed'
ElementName(element) ==
    IF element.tags.name # "" THEN element.tags.name
    ELSE IF element.tags.nameEn # "" THEN element.tags.nameEn
    ELSE "Unnamed"

\* the element has coordinates the loop can read: a node's own lat/lon, or
\* the center of a way (lat/lon then stand for center.lat/center.lon)
HasCoordinates(element) ==
    \/ element.type = "node"
    \/ element.type = "way" /\ element.center

\* the loop of processOverpassResults from element k on; the key of the
\* duplicate check is the triple the template string is built from
RECURSIVE ProcessElements(_, _, _, _, _)
ProcessElements(elements, preferences, k, pois, seen) ==
    IF k > Len(elements) THEN pois
    ELSE
      LET element == elements[k]
          name == ElementName(element)
          key == <<name, element.lat, element.lon>>
          category == determineCategory(element.tags, preferences)
          poi == [id |-> element.id, name |-> name, lat |-> element.lat,
                  lng |-> element.lon, category |-> category,
                  tags |-> element.tags,
                  icon |-> PREFERENCE_ICONS[category], type |-> element.type]
      IN  IF ~element.hasTags \/ ~HasCoordinates(element) \/ key \in seen
          THEN ProcessElements(elements, preferences, k + 1, pois, seen)
          ELSE IF category = "null"
          THEN ProcessElements(elements, preferences, k + 1, pois, seen \cup {key})
          ELSE ProcessElements(elements, preferences, k + 1, Append(pois, poi),
                               seen \cup {key})

\* processOverpassResults for a response object; elements missing or empty
\* gives []
processOverpassResults(data, preferences) ==
    IF data.k # "elements" \/ Len(data.elements) = 0 THEN <<>>
    ELSE ProcessElements(data.elements, preferences, 1, <<>>, {})

\* RecommendModule.calculateDistance: the same formula as the transport
\* module's, in decimetres, centre and place on one meridian.  Coordinates
\* of places are in units of 1e-5 degree: 11.11949 dm per unit.
poiDistance(lat1, lng1, lat2, lng2) ==
    LET units == CASE lng1 = lng2 -> Abs(lat2 - lat1)
                   [] lat1 = 0 /\ lat2 = 0 -> Abs(lng2 - lng1)
    IN  units * 11 + (units * 11949) \div 100000

\* .map(poi => ({...poi, distance: calculateDistance(lat, lng, poi.lat, poi.lng)}))
WithDistance(pois, lat, lng) ==
    [k \in 1..Len(pois) |->
        [id |-> pois[k].id, name |-> pois[k].name, lat |-> pois[k].lat,
         lng |-> pois[k].lng, category |-> pois[k].category,
         tags |-> pois[k].tags, icon |-> pois[k].icon, type |-> pois[k].type,
         distance |-> poiDistance(lat, lng, pois[k].lat, pois[k].lng)]]

\* the list left in response order
sortByResponseOrder(pois) == pois

\* insertion of one place behind every place that is not farther
RECURSIVE InsertByDistance(_, _)
InsertByDistance(sorted, poi) ==
    IF Len(sorted) = 0 THEN <<poi>>
    ELSE IF sorted[Len(sorted)].distance - poi.distance <= 0
         THEN Append(sorted, poi)
    ELSE Append(InsertByDistance(SubSeq(sorted, 1, Len(sorted) - 1), poi),
                sorted[Len(sorted)])

RECURSIVE SortPrefix(_, _)
SortPrefix(pois, k) ==
    IF k = 0 THEN <<>> ELSE InsertByDistance(SortPrefix(pois, k - 1), pois[k])

\* .sort((a, b) => a.distance - b.distance): Array.prototype.sort is stable
sortByDistance(pois) == SortPrefix(pois, Len(pois))

\* preferences as searchPOIs uses them: all keys of the table when the
\* caller gave none
EffectivePreferences(preferences) ==
    IF Len(preferences) = 0 THEN PreferenceKeys ELSE preferences

\* what searchPOIs resolves with for a reply of the service: fetch rejects
\* ("network"), !response.ok ("status"), response.json() rejects
\* ("unparsable"), the body is JSON null ("null": reading data.elements
\* throws), an object without elements ("object"), an object with elements
searchPOIsResult(lat, lng, preferences, data) ==
    IF data.k \in {"network", "status", "unparsable", "null"} THEN <<>>
    ELSE slice0(sortByDistance(
                    WithDistance(processOverpassResults(
                                     data, EffectivePreferences(preferences)),
                                 lat, lng)),
                MAX_RESULTS)

\* Number.prototype.toFixed(4) of a coordinate, as the count of 1e-4 degrees
\* it prints, for a positive coordinate that is not half-way between two
\* such counts
toFixed4(x) == (x + 5) \div 10

\* the key of deduplicatePOIs: the parts its template string is built from
PoiKey(poi) == <<poi.name, toFixed4(poi.lat), toFixed4(poi.lng)>>

\* the loop of deduplicatePOIs from place k on: the values of the Map, in
\* insertion order
RECURSIVE DeduplicateFrom(_, _, _, _)
DeduplicateFrom(pois, k, seen, kept) ==
    IF k > Len(pois) THEN kept
    ELSE IF PoiKey(pois[k]) \in seen
         THEN DeduplicateFrom(pois, k + 1, seen, kept)
    ELSE DeduplicateFrom(pois, k + 1, seen \cup {PoiKey(pois[k])},
                         Append(kept, pois[k]))

\* every place kept, whatever its key
keepAllPOIs(pois) == pois

deduplicatePOIs(pois) == DeduplicateFrom(pois, 1, {}, <<>>)

\* coordinates.filter((_, index) => index % sampleInterval === 0), from the
\* (zero-based) index on
RECURSIVE SampleFrom(_, _, _)
SampleFrom(coordinates, index, sampleInterval) ==
    IF index >= Len(coordinates) THEN <<>>
    ELSE IF index % sampleInterval = 0
         THEN <<coordinates[index + 1]>>
              \o SampleFrom(coordinates, index + 1, sampleInterval)
    ELSE SampleFrom(coordinates, index + 1, sampleInterval)

\* the sampled points of getPOIsAlongRoute
SampledPoints(coordinates) ==
    SampleFrom(coordinates, 0, Max(1, Len(coordinates) \div 10))

\* poiResults.flat() of the searchPOIs results for the sampled points
RECURSIVE FlatResults(_, _, _, _)
FlatResults(points, preferences, replies, k) ==
    IF k > Len(points) THEN <<>>
    ELSE searchPOIsResult(points[k][2], points[k][1], preferences, replies[k])
         \o FlatResults(points, preferences, replies, k + 1)

\* what getPOIsAlongRoute resolves with; coordinates are [lng, lat] pairs
getPOIsAlongRouteResult(coordinates, preferences, replies) ==
    IF Len(coordinates) = 0 THEN <<>>
    ELSE slice0(deduplicatePOIs(FlatResults(SampledPoints(coordinates),
                                            preferences, replies, 1)),
                MAX_RESULTS)

MaxElements == 2
MaxFill == 16

PoiCentres ==
    {[lat |-> 3750000, lng |-> 12700000], [lat |-> 3750040, lng |-> 12700000]}

PoiPreferences ==
    {<<>>, <<"food">>, <<"food", "culture">>, <<"culture", "food">>,
     <<"spa", "culture">>, <<"shopping">>}

Node(id, lat, tags) ==
    [type |-> "node", id |-> id, hasTags |-> TRUE, tags |-> tags,
     center |-> FALSE, lat |-> lat, lon |-> 12700000]

\* elements of a response: named and unnamed nodes, a node in two
\* categories, a node in no category, ways with and without center, a node
\* without tags (as '>; out skel' returns them), a relation, a second node
\* of the first one's name a metre away from it
PoiElements ==
    {Node(1, 3750030, [NoTags EXCEPT !.name = "a", !.amenity = "cafe"]),
     Node(2, 3749980, [NoTags EXCEPT !.name = "b", !.tourism = "museum",
                                    !.amenity = "restaurant"]),
     Node(3, 3750010, [NoTags EXCEPT !.name = "c", !.amenity = "bank"]),
     Node(4, 3750020, [NoTags EXCEPT !.amenity = "cafe"]),
     Node(5, 3750030, [NoTags EXCEPT !.nameEn = "a", !.tourism = "gallery"]),
     Node(6, 3759000, [NoTags EXCEPT !.name = "f", !.shop = "bakery"]),
     [Node(7, 3750060, [NoTags EXCEPT !.name = "g", !.shop = "mall"])
        EXCEPT !.type = "way", !.center = TRUE],
     [Node(8, 3750010, [NoTags EXCEPT !.name = "h", !.amenity = "cafe"])
        EXCEPT !.type = "way"],
     [Node(9, 3750010, NoTags) EXCEPT !.hasTags = FALSE],
     [Node(10, 3750010, [NoTags EXCEPT !.name = "j", !.amenity = "cafe"])
        EXCEPT !.type = "relation"],
     Node(11, 3750031, [NoTags EXCEPT !.name = "a", !.amenity = "cafe"])}

\* n further named cafes, at 0.0001 to 0.0017 degrees north of 37.5 in an order that
\* is not the order of their distances
Fill(n) ==
    [k \in 1..n |->
        Node(100 + k, 3750000 + (((k * 7) % 17) + 1) * 10,
             [NoTags EXCEPT !.name = "p", !.amenity = "cafe"])]

PoiHeads == UNION {[1..n -> PoiElements] : n \in 0..MaxElements}

PoiReplies ==
    {[k |-> kind, elements |-> <<>>] :
        kind \in {"network", "status", "unparsable", "null", "object"}}
    \cup
    {[k |-> "elements", elements |-> head \o Fill(n)] :
        head \in PoiHeads, n \in {0, MaxFill - 2, MaxFill}}

InitPoi ==
    /\ now = 0
    /\ poiArgs = [k |-> "none"]
    /\ poiPc = "idle"
    /\ poiResult = <<>>
    /\ RoutesIdle
    /\ ThrottleIdle
    /\ CostIdle
    /\ AppIdle
    /\ OptIdle

\* searchPOIs up to its fetch
CallSearchPOIs(centre, preferences) ==
    /\ poiPc = "idle"
    /\ poiArgs' = [k |-> "call", lat |-> centre.lat, lng |-> centre.lng,
                   preferences |-> preferences,
                   data |-> [k |-> "pending", elements |-> <<>>]]
    /\ poiPc' = "fetch"
    /\ poiResult' = <<>>
    /\ UNCHANGED <<now, routeVars, throttleVars, costVars, appVars, optVars>>

\* the service answers and searchPOIs runs to its return
OverpassAnswers(data) ==
    /\ poiPc = "fetch"
    /\ poiArgs' = [poiArgs EXCEPT !.data = data]
    /\ poiPc' = "done"
    /\ poiResult' = searchPOIsResult(poiArgs.lat, poiArgs.lng,
                                     poiArgs.preferences, data)
    /\ UNCHANGED <<now, routeVars, throttleVars, costVars, appVars, optVars>>

MaxSamples == 2

\* a route of n points, 0.0004 degrees apart on one meridian
RouteLine(n) == [k \in 1..n |-> <<12700000, 3750000 + (k - 1) * 40>>]

PoiRoutes == {RouteLine(n) : n \in 0..MaxSamples} \cup {RouteLine(20)}

\* replies to the search around one sampled point
SampleReplies ==
    {[k |-> "network", elements |-> <<>>],
     [k |-> "elements",
      elements |-> <<Node(1, 3750030, [NoTags EXCEPT !.name = "a", !.amenity = "cafe"]),
                     Node(2, 3749980, [NoTags EXCEPT !.name = "b",
                                              !.tourism = "museum",
                                              !.amenity = "restaurant"])>>],
     [k |-> "elements",
      elements |-> <<Node(11, 3750031, [NoTags EXCEPT !.name = "a", !.amenity = "cafe"]),
                     Node(1, 3750030, [NoTags EXCEPT !.name = "a", !.amenity = "cafe"])>>],
     [k |-> "elements", elements |-> Fill(MaxFill)]}

\* for a long route every search fails or finds the same two places
LongRouteReplies ==
    {r \in SampleReplies :
        r.k = "network" \/ (Len(r.elements) = 2 /\ r.elements[1].id = 1)}

RepliesFor(coordinates) ==
    LET n == Len(SampledPoints(coordinates))
    IN  IF n <= MaxSamples + 1 THEN [1..n -> SampleReplies]
        ELSE {[k \in 1..n |-> IF k = j THEN r ELSE [k |-> "network", elements |-> <<>>]] :
                 j \in 1..n, r \in LongRouteReplies}

\* getPOIsAlongRoute up to the fetches of its searches; without coordinates
\* it returns [] at once
CallGetPOIsAlongRoute(coordinates, preferences) ==
    /\ poiPc = "idle"
    /\ poiArgs' = [k |-> "route", coordinates |-> coordinates,
                   preferences |-> preferences, replies |-> <<>>]
    /\ poiPc' = IF Len(coordinates) = 0 THEN "routeDone" ELSE "fetchAll"
    /\ poiResult' = <<>>
    /\ UNCHANGED <<now, routeVars, throttleVars, costVars, appVars, optVars>>

\* every search of getPOIsAlongRoute has settled (none of them rejects) and
\* the function runs to its return
AllSearchesSettle(replies) ==
    /\ poiPc = "fetchAll"
    /\ poiArgs' = [poiArgs EXCEPT !.replies = replies]
    /\ poiPc' = "routeDone"
    /\ poiResult' = getPOIsAlongRouteResult(poiArgs.coordinates,
                                            poiArgs.preferences, replies)
    /\ UNCHANGED <<now, routeVars, throttleVars, costVars, appVars, optVars>>

NextPoi ==
    \/ \E centre \in PoiCentres, preferences \in PoiPreferences :
            CallSearchPOIs(centre, preferences)
    \/ \E data \in PoiReplies : OverpassAnswers(data)
    \/ \E coordinates \in PoiRoutes, preferences \in PoiPreferences :
            CallGetPOIsAlongRoute(coordinates, preferences)
    \/ /\ poiPc = "fetchAll"
       /\ \E replies \in RepliesFor(poiArgs.coordinates) : AllSearchesSettle(replies)

SpecPoi == InitPoi /\ [][NextPoi]_vars

\* the places processOverpassResults accepts for the call that has returned
PoiAccepted ==
    WithDistance(processOverpassResults(poiArgs.data,
                                        EffectivePreferences(poiArgs.preferences)),
                 poiArgs.lat, poiArgs.lng)

\* C19: searchPOIs returns at most 15 places, in ascending order of their
\* great-circle distance from the centre, each an accepted entity of the
\* response and none farther than an accepted entity that was left out (as
\* many as were accepted when those are fewer than 15); when the service
\* fails (no connection, an error status, an unreadable body) the call
\* returns the empty list.
C19_NearestFifteenSorted ==
    poiPc = "done" =>
        LET accepted == PoiAccepted
            result == poiResult
        IN  /\ Len(result) <= 15
            /\ \A k \in 1..(Len(result) - 1) :
                  result[k].distance <= result[k + 1].distance
            /\ \A k \in 1..Len(result) :
                  /\ \E j \in 1..Len(accepted) : result[k] = accepted[j]
                  /\ result[k].distance =
                        poiDistance(poiArgs.lat, poiArgs.lng,
                                    result[k].lat, result[k].lng)
                  /\ \A j \in 1..Len(result) : j # k => result[j] # result[k]
            /\ Len(result) = (IF Len(accepted) < 15 THEN Len(accepted) ELSE 15)
            /\ \A j \in 1..Len(accepted) :
                  (\A k \in 1..Len(result) : result[k] # accepted[j]) =>
                      \A k \in 1..Len(result) :
                          result[k].distance <= accepted[j].distance
            /\ poiArgs.data.k \in {"network", "status", "unparsable", "null"} =>
                  result = <<>>

\* more than 15 entities were accepted, out of distance order, and the 15
\* returned begin with one that was not first in the response
C19_Witness ==
    /\ poiPc = "done"
    /\ LET accepted == PoiAccepted
       IN  /\ Len(accepted) > 15
           /\ Len(poiResult) = 15
           /\ poiResult[1] # accepted[1]
           /\ \E j \in 1..15 :
                 /\ \A k \in 1..15 : poiResult[k] # accepted[j]
                 /\ accepted[j].distance > poiResult[15].distance

\* the first of the preferences, in the caller's order (all categories in
\* table order when the caller gave none), one of whose tags the entity has
RECURSIVE FirstMatching(_, _, _)
FirstMatching(tags, preferences, k) ==
    IF k > Len(preferences) THEN "null"
    ELSE IF /\ preferences[k] \in DOMAIN PREFERENCE_TAGS
            /\ \E i \in 1..Len(PREFERENCE_TAGS[preferences[k]]) :
                  LET pair == PREFERENCE_TAGS[preferences[k]][i]
                  IN  tags[pair[1]] = pair[2]
         THEN preferences[k]
    ELSE FirstMatching(tags, preferences, k + 1)

\* C20: every place of the result comes from an entity of the response
\* that has a name, has coordinates, and matches a requested category, and
\* its category is the first one in preference order whose tags the entity
\* satisfies.
C20_CategoryAndDrops ==
    poiPc = "done" =>
        \A k \in 1..Len(poiResult) :
            \E j \in 1..Len(poiArgs.data.elements) :
                LET element == poiArgs.data.elements[j]
                    wanted == FirstMatching(element.tags,
                                  EffectivePreferences(poiArgs.preferences), 1)
                IN  /\ element.id = poiResult[k].id
                    /\ element.hasTags
                    /\ element.tags.name # "" \/ element.tags.nameEn # ""
                    /\ HasCoordinates(element)
                    /\ wanted # "null"
                    /\ poiResult[k].category = wanted

\* the same without the requirement of a name
C20_CategoryAndDropsUnnamedKept ==
    poiPc = "done" =>
        \A k \in 1..Len(poiResult) :
            \E j \in 1..Len(poiArgs.data.elements) :
                LET element == poiArgs.data.elements[j]
                    wanted == FirstMatching(element.tags,
                                  EffectivePreferences(poiArgs.preferences), 1)
                IN  /\ element.id = poiResult[k].id
                    /\ element.hasTags
                    /\ HasCoordinates(element)
                    /\ wanted # "null"
                    /\ poiResult[k].category = wanted

\* the places of every search of the route call that has returned, flattened
PoiAlongRoute ==
    FlatResults(SampledPoints(poiArgs.coordinates), poiArgs.preferences,
                poiArgs.replies, 1)

\* no two places of the list have the same name and the same coordinates
\* rounded to 4 decimals
NoSameKey(pois) ==
    \A j, k \in 1..Len(pois) : j # k => PoiKey(pois[j]) # PoiKey(pois[k])

\* C21: no list returned by searchPOIs or getPOIsAlongRoute holds two places
\* with the same key (name, latitude and longitude rounded to 4 decimals);
\* of the places with one key the first is the one kept; deduplicating a
\* deduplicated list gives the same list.
C21_DeduplicatedByRoundedKey ==
    /\ poiPc \in {"done", "routeDone"} => NoSameKey(poiResult)
    /\ (poiPc = "routeDone" /\ Len(poiArgs.coordinates) > 0) =>
          LET all == PoiAlongRoute
              once == deduplicatePOIs(all)
          IN  /\ \A k \in 1..Len(poiResult) :
                    \E j \in 1..Len(all) :
                        /\ poiResult[k] = all[j]
                        /\ \A i \in 1..(j - 1) : PoiKey(all[i]) # PoiKey(all[j])
              /\ deduplicatePOIs(once) = once

\* the same for the lists getPOIsAlongRoute returns only
C21_AlongRouteDeduplicated ==
    (poiPc = "routeDone" /\ Len(poiArgs.coordinates) > 0) =>
        LET all == PoiAlongRoute
            once == deduplicatePOIs(all)
        IN  /\ NoSameKey(poiResult)
            /\ \A k \in 1..Len(poiResult) :
                  \E j \in 1..Len(all) :
                      /\ poiResult[k] = all[j]
                      /\ \A i \in 1..(j - 1) : PoiKey(all[i]) # PoiKey(all[j])
            /\ deduplicatePOIs(once) = once

\* a route call returned fewer places than its searches found
C21_AlongRouteCollapsed ==
    /\ poiPc = "routeDone"
    /\ Len(poiArgs.coordinates) > 0
    /\ Len(poiResult) > 0
    /\ Len(poiResult) < Len(PoiAlongRoute)
    /\ Len(PoiAlongRoute) < 15

-----------------------------------------------------------------------------
(* The debounced input handlers: TransportModule.debounce and the two      *)
(* wrappers setupEventListeners installs on the address inputs.            *)

\* wait of the two address inputs
DEBOUNCE_WAIT == 300

\* Bounds of the debounce model: calls of the wrappers, clock steps
MaxCalls == 3
MaxDebounceTicks == 6
DebounceTick == DEBOUNCE_WAIT \div 3

\* the closure variable `timeout` of one wrapper: no timer pending; args is
\* the number of the call whose arguments `later` holds
NoTimer == [armed |-> FALSE, due |-> 0, args |-> 0]

\* a wrapper that leaves a pending timer alone
keepPendingTimer(pending, at, wait, args) ==
    IF pending.armed THEN pending
    ELSE [armed |-> TRUE, due |-> at + wait, args |-> args]

\* clearTimeout(timeout); timeout = setTimeout(later, wait)
resetTimer(pending, at, wait, args) ==
    [armed |-> TRUE, due |-> at + wait, args |-> args]

\* executedFunction(...args) of the wrapper of one input
executedFunction(field, wait) ==
    /\ calls' = Append(calls, [field |-> field, at |-> now])
    /\ timeout' = [timeout EXCEPT
                      ![field] = resetTimer(timeout[field], now, wait, Len(calls) + 1)]

\* later(): the timer of the wrapper fires and func runs with the arguments
\* of the call that set it; seen is the number of calls made by then
later(field) ==
    /\ timeout[field].armed
    /\ now >= timeout[field].due
    /\ timeout' = [timeout EXCEPT ![field] = NoTimer]
    /\ runs' = Append(runs, [field |-> field, at |-> now,
                             args |-> timeout[field].args, seen |-> Len(calls)])

InitDebounce ==
    /\ now = 0
    /\ timeout = [f \in Fields |-> NoTimer]
    /\ calls = <<>>
    /\ runs = <<>>
    /\ lists = <<>>
    /\ searches = <<>>
    /\ state = [k |-> "none"]
    /\ inputs = <<>>
    /\ subs = <<>>
    /\ history = <<>>
    /\ loading = FALSE
    /\ MapIdle
    /\ RoutesIdle
    /\ ThrottleIdle
    /\ CostIdle
    /\ OptIdle
    /\ PoiIdle

\* a call of the debounced function
CallDebounced(field) ==
    /\ Len(calls) < MaxCalls
    /\ executedFunction(field, DEBOUNCE_WAIT)
    /\ UNCHANGED <<now, runs, lists, searches, state, inputs, subs, history, loading,
                   mapVars, routeVars, throttleVars, costVars, optVars, poiVars>>

\* the timer fires; what func does is left open here
DebounceFires(field) ==
    /\ later(field)
    /\ UNCHANGED <<now, calls, lists, searches, state, inputs, subs, history, loading,
                   mapVars, routeVars, throttleVars, costVars, optVars, poiVars>>

\* time passes; a timer that is due fires before the clock moves on
TickDebounce ==
    /\ now < MaxDebounceTicks * DebounceTick
    /\ \A f \in Fields : timeout[f].armed => now < timeout[f].due
    /\ now' = now + DebounceTick
    /\ UNCHANGED <<routeVars, throttleVars, costVars, appVars, optVars, poiVars>>

NextDebounce ==
    \/ \E field \in Fields : CallDebounced(field)
    \/ \E field \in Fields : DebounceFires(field)
    \/ TickDebounce

SpecDebounce == InitDebounce /\ [][NextDebounce]_vars

\* call k was followed by a call of the same wrapper less than wait later
Superseded(k) ==
    \E j \in (k + 1)..Len(calls) :
        /\ calls[j].field = calls[k].field
        /\ calls[j].at < calls[k].at + 300

\* call k is the last of its burst: no call of the same wrapper followed it
\* within wait
LastOfBurst(k) ==
    \A j \in (k + 1)..Len(calls) :
        calls[j].field = calls[k].field => calls[j].at > calls[k].at + 300

RunsOf(k) == {r \in 1..Len(runs) : runs[r].args = k}

\* C23: func runs only when wait = 300 ms have passed since a call of the
\* wrapper with no further call of it in between, with the arguments of
\* that call; it never runs for a call that was followed by another within
\* the wait, and it runs exactly once for the last call of a burst.
C23_DebounceRunsOnceAfterLast ==
    /\ \A r \in 1..Len(runs) :
          LET k == runs[r].args
          IN  /\ k \in 1..Len(calls)
              /\ calls[k].field = runs[r].field
              /\ runs[r].at >= calls[k].at + 300
              /\ \A j \in (k + 1)..runs[r].seen : calls[j].field # calls[k].field
    /\ \A k \in 1..Len(calls) :
          /\ Cardinality(RunsOf(k)) <= 1
          /\ Superseded(k) => RunsOf(k) = {}
          /\ (LastOfBurst(k) /\ now > calls[k].at + 300) => Cardinality(RunsOf(k)) = 1

\* C23 witness: three calls of one wrapper 100 ms apart, and one run, 300 ms
\* after the third, with the third call's arguments
C23_Witness ==
    /\ Len(calls) = 3
    /\ \A k \in 1..3 : calls[k].field = "departure" /\ calls[k].at = (k - 1) * 100
    /\ Len(runs) = 1
    /\ runs[1].args = 3
    /\ runs[1].at = 500
    /\ now = 600

-----------------------------------------------------------------------------
(* The autocomplete of the two address inputs: the debounced               *)
(* handleAddressSearch, searchAddress behind the shared throttle, and      *)
(* renderAutocompleteList.                                                 *)

\* Bounds of the autocomplete model: clock steps of one debounce wait
MaxInputTicks == 5
InputTick == DEBOUNCE_WAIT

\* texts the user types: nothing, two curated keys (two and three
\* characters), a text the curated table lacks
InputTexts == { <<>>, <<"seo", "ul">>, <<"seo", "ul", "si">>, <<"x", "y", "z">> }

\* a list element without the class 'active'; seq is the number of the
\* handler run that wrote the element last
HiddenList == [active |-> FALSE, items |-> <<>>, query |-> <<>>, seq |-> 0]

\* no handler run is waiting on this searchAddress call
IdleSearch == [busy |-> FALSE, field |-> "", query |-> <<>>, seq |-> 0]

InitInput ==
    /\ now = NOMINATIM_DELAY
    /\ lastNominatimRequest = 0
    /\ callers = [c \in CallerIds |-> IdleCaller]
    /\ sends = <<>>
    /\ state = [departure |-> Null, destination |-> Null]
    /\ inputs = [departure |-> <<>>, destination |-> <<>>]
    /\ subs = [c \in SubIds |-> IdleSub]
    /\ history = <<>>
    /\ loading = FALSE
    /\ timeout = [f \in Fields |-> NoTimer]
    /\ calls = <<>>
    /\ runs = <<>>
    /\ lists = [f \in Fields |-> HiddenList]
    /\ searches = [c \in CallerIds |-> IdleSearch]
    /\ MapIdle
    /\ RoutesIdle
    /\ CostIdle
    /\ OptIdle
    /\ PoiIdle

\* an input event: the text of the field changes and the debounced wrapper
\* of the field is called
InputEvent(field, text) ==
    /\ Len(calls) < MaxCalls
    /\ inputs[field] # text
    /\ inputs' = [inputs EXCEPT ![field] = text]
    /\ executedFunction(field, DEBOUNCE_WAIT)
    /\ UNCHANGED <<now, runs, lists, searches, state, subs, history, loading,
                   mapVars, routeVars, throttleVars, costVars, optVars, poiVars>>

\* the timer of the wrapper fires and handleAddressSearch runs up to its
\* return or its await: the query is the text the field holds now
handleAddressSearch(field) ==
    /\ later(field)
    /\ LET query == trim(inputs[field])
           seq == Len(runs) + 1
       IN  IF Len(query) < 3
           THEN /\ lists' = [lists EXCEPT ![field].active = FALSE, ![field].seq = seq]
                /\ UNCHANGED <<searches, throttleVars>>
           ELSE /\ \E c \in CallerIds :
                     /\ callers[c].pc = "idle"
                     /\ \A d \in CallerIds : d < c => callers[d].pc # "idle"
                     /\ searchAddress(c, query)
                     /\ searches' = [searches EXCEPT ![c] =
                                       [busy |-> TRUE, field |-> field,
                                        query |-> query, seq |-> seq]]
                /\ UNCHANGED lists
    /\ UNCHANGED <<now, calls, state, inputs, subs, history, loading,
                   mapVars, routeVars, costVars, optVars, poiVars>>

\* listElement.innerHTML = html; listElement.classList.add('active')
renderAutocompleteList(list, results, query, seq) ==
    [active |-> TRUE, items |-> results, query |-> query, seq |-> seq]

\* handleAddressSearch after its await: an empty result hides the list, any
\* other result is rendered
AddressSearchReturns(c) ==
    /\ searches[c].busy
    /\ callers[c].pc = "done"
    /\ LET results == callers[c].result
           field == searches[c].field
       IN  lists' = IF Len(results) = 0
                    THEN [lists EXCEPT ![field].active = FALSE,
                                       ![field].seq = searches[c].seq]
                    ELSE [lists EXCEPT ![field] =
                            renderAutocompleteList(lists[field], results,
                                                   searches[c].query, searches[c].seq)]
    /\ searches' = [searches EXCEPT ![c] = IdleSearch]
    /\ callers' = [callers EXCEPT ![c] = IdleCaller]
    /\ UNCHANGED <<now, lastNominatimRequest, sends, timeout, calls, runs,
                   state, inputs, subs, history, loading,
                   mapVars, routeVars, costVars, optVars, poiVars>>

\* click on item k of a displayed list
ClickAutocompleteItem(field, k) ==
    /\ lists[field].active
    /\ k \in 1..Len(lists[field].items)
    /\ state' = [state EXCEPT ![field] = PlaceOf(lists[field].items[k])]
    /\ inputs' = [inputs EXCEPT ![field] = lists[field].items[k].name]
    /\ lists' = [lists EXCEPT ![field].active = FALSE]
    /\ UNCHANGED <<now, timeout, calls, runs, searches, subs, history, loading,
                   mapVars, routeVars, throttleVars, costVars, optVars, poiVars>>

\* time passes; a timer that is due fires before the clock moves on
TickInput ==
    /\ now < NOMINATIM_DELAY + MaxInputTicks * InputTick
    /\ \A f \in Fields : timeout[f].armed => now < timeout[f].due
    /\ \A c \in CallerIds : callers[c].pc = "waiting" => now < callers[c].wake
    /\ now' = now + InputTick
    /\ UNCHANGED <<routeVars, throttleVars, costVars, appVars, optVars, poiVars>>

\* a searchAddress call of handleAddressSearch has settled and the handler
\* has not resumed yet: it resumes in a microtask, before any event, timer
\* or response is handled
HandlerPending ==
    \E c \in CallerIds : searches[c].busy /\ callers[c].pc = "done"

NextInput ==
    \/ \E c \in CallerIds : AddressSearchReturns(c)
    \/ /\ ~HandlerPending
       /\ \/ \E field \in Fields, text \in InputTexts : InputEvent(field, text)
          \/ \E field \in Fields : handleAddressSearch(field)
          \/ \E field \in Fields : \E k \in 1..Len(lists[field].items) :
                ClickAutocompleteItem(field, k)
          \/ \E c \in CallerIds : ThrottleTimerFires(c)
          \/ \E c \in CallerIds, reply \in NominatimReplies : NominatimAnswers(c, reply)
          \/ TickInput

SpecInput == InitInput /\ [][NextInput]_vars

\* what searchAddress yields for a query without asking the network
CuratedCandidates(query) ==
    IF Len(query) < 2 THEN <<>> ELSE searchPopularCities(query)

\* C24: whenever handleAddressSearch runs for a field whose text has at least
\* one candidate in the curated table, the list of the field is displayed
\* with those candidates (at once or when the search the run started
\* returns), and every search that returns with candidates displays them.
C24_ListShownForCandidates ==
    [][/\ \A f \in Fields :
             (Len(runs') > Len(runs) /\ runs'[Len(runs')].field = f) =>
                LET candidates == CuratedCandidates(trim(inputs[f]))
                IN  Len(candidates) > 0 =>
                      \/ lists'[f].active /\ lists'[f].items = candidates
                      \/ \E c \in CallerIds :
                            /\ searches'[c].busy
                            /\ searches'[c].field = f
                            /\ callers'[c].result = candidates
       /\ \A c \in CallerIds :
             (searches[c].busy /\ ~searches'[c].busy /\ Len(callers[c].result) > 0) =>
                /\ lists'[searches[c].field].active
                /\ lists'[searches[c].field].items = callers[c].result]_vars

\* C29: the list of a field is never written by a handler run older than
\* the run that wrote it last.
C29_NewerListKept ==
    [][\A f \in Fields : lists'[f].seq >= lists[f].seq]_vars

-----------------------------------------------------------------------------
(* Route cards and map layers: calculateRoutes, calculateCosts,            *)
(* renderResults and setupRouteClickHandlers of TravelApp,                 *)
(* drawMultipleRoutes and highlightRoute of MapModule.                     *)

\* what the attempt of one profile may end with: no body at all (error
\* status, timeout, network failure) or a body with a route whose geometry
\* is an array, an empty array or an encoded string
MapBodies ==
    {NoBody} \cup
    { [kind |-> "routes", distance |-> 12345, duration |-> 1850, steps |-> 2,
       geometry |-> g] : g \in {"line", "empty", "encoded"} }

\* destinations: 11 km from the origin, and the origin itself
MapEnds == { Point(1270000, 376000), Origin }

\* what the routePromise of profile i resolves to
SlotOf(s, e, i, body) ==
    LET parsed == IF body.kind = "none" THEN Thrown("API error")
                  ELSE ParseBody(body, profiles[i].profile)
    IN  IF parsed.ok THEN DecorateRoute(parsed.route, profiles[i])
        ELSE FallbackSlot(s, e, i)

\* the list getMultipleRoutes resolves with
RouteListOf(s, e, bodies) ==
    FilterNotNull([i \in ProfileIds |-> SlotOf(s, e, i, bodies[i])])

\* route.coordinates && route.coordinates.length > 0
Drawable(route) ==
    route.coordinates # UndefinedCoordinates /\ Len(route.coordinates) > 0

\* drawRoute: the polyline pushed onto routeLayers; forRoute is the index of
\* the route it was drawn for
Polyline(route, index) ==
    [forRoute |-> index, points |-> Len(route.coordinates), style |-> "drawn"]

\* the forEach of drawMultipleRoutes, from route k on
RECURSIVE DrawFrom(_, _)
DrawFrom(routes, k) ==
    IF k > Len(routes) THEN <<>>
    ELSE (IF Drawable(routes[k]) THEN <<Polyline(routes[k], k)>> ELSE <<>>)
         \o DrawFrom(routes, k + 1)

\* routeLayers after clearRoutes() and the forEach of drawMultipleRoutes
drawMultipleRoutes(routes) == DrawFrom(routes, 1)

\* the end of drawMultipleRoutes: when routes[0].coordinates is truthy the
\* coordinates of all routes are concatenated, an undefined one becomes an
\* element of the array, and fitBounds reads coord[1] of it
FitBoundsThrows(routes) ==
    /\ routes[1].coordinates # UndefinedCoordinates
    /\ \E k \in 1..Len(routes) : routes[k].coordinates = UndefinedCoordinates

\* the arguments of calculateTripCost in calculateCosts and in the click
\* handler, for the default trip of 3 days and no place found
TripOf(route) ==
    [route |-> route, duration |-> 3, accommodationLevel |-> "standard",
     foodLevel |-> "standard", places |-> <<>>]

\* { ...route, cost: costData.total, durationMinutes: route.durationMinutes || 60 }
WithCost(route) ==
    [f \in DOMAIN route \cup {"cost"} |->
        IF f = "cost" THEN calculateTripCost(TripOf(route)).total
        ELSE IF f = "durationMinutes"
        THEN (IF route.durationMinutes = 0 THEN 60 ELSE route.durationMinutes)
        ELSE route[f]]

\* renderRouteCostComparison: one card per route, in the order of the list;
\* setupRouteClickHandlers makes the first one active
CardsOf(routes) ==
    [i \in 1..Len(routes) |-> [profile |-> routes[i].profile, active |-> i = 1]]

\* layer.setStyle of highlightRoute(routeIndex)
highlightRoute(layers, routeIndex) ==
    [k \in 1..Len(layers) |->
        [layers[k] EXCEPT !.style = IF k = routeIndex THEN "highlight" ELSE "dim"]]

InitMap ==
    /\ now = 0
    /\ stateRoutes = <<>>
    /\ selectedRoute = Null
    /\ routeLayers = <<>>
    /\ routeCards = <<>>
    /\ params = [k |-> "none"]
    /\ costPc = "off"
    /\ costs = Null
    /\ state = [k |-> "none"]
    /\ inputs = <<>>
    /\ subs = <<>>
    /\ history = <<>>
    /\ loading = FALSE
    /\ AcIdle
    /\ RoutesIdle
    /\ ThrottleIdle
    /\ OptIdle
    /\ PoiIdle

\* handleFormSubmit from calculateRoutes on, for a list getMultipleRoutes
\* resolved with (when it rejects, nothing below changes).  An exception of
\* drawMultipleRoutes ends the submission after the layers were drawn.
SubmitDraws(s, e, bodies) ==
    LET routes == RouteListOf(s, e, bodies)
    IN  /\ routes # <<>>
        /\ selectedRoute' = routes[1]
        /\ routeLayers' = drawMultipleRoutes(routes)
        /\ IF FitBoundsThrows(routes)
           THEN /\ stateRoutes' = routes
                /\ UNCHANGED <<routeCards, costs>>
           ELSE /\ costs' = calculateTripCost(TripOf(routes[1]))
                /\ stateRoutes' = [i \in 1..Len(routes) |-> WithCost(routes[i])]
                /\ routeCards' = CardsOf(stateRoutes')
        /\ UNCHANGED <<now, params, costPc, state, inputs, subs, history, loading,
                       acVars, routeVars, throttleVars, optVars, poiVars>>

\* click on card number index (counted from 1); state.routes[index] of a
\* card beyond the list is undefined, written Null
ClickRouteCard(index) ==
    /\ index \in 1..Len(routeCards)
    /\ routeCards' = [i \in 1..Len(routeCards) |->
                        [routeCards[i] EXCEPT !.active = (i = index)]]
    /\ selectedRoute' = IF index <= Len(stateRoutes) THEN stateRoutes[index] ELSE Null
    /\ routeLayers' = highlightRoute(routeLayers, index)
    /\ costs' = calculateTripCost(TripOf(selectedRoute'))
    /\ UNCHANGED <<now, stateRoutes, params, costPc, state, inputs, subs, history,
                   loading, acVars, routeVars, throttleVars, optVars, poiVars>>

\* handleClear: the containers of the cards are hidden, so no card can be
\* clicked until the next rendering
ClearMap ==
    /\ stateRoutes # <<>> \/ routeCards # <<>>
    /\ stateRoutes' = <<>>
    /\ selectedRoute' = Null
    /\ routeLayers' = <<>>
    /\ routeCards' = <<>>
    /\ costs' = Null
    /\ UNCHANGED <<now, params, costPc, state, inputs, subs, history, loading,
                   acVars, routeVars, throttleVars, optVars, poiVars>>

NextMap ==
    \/ \E e \in MapEnds, bodies \in [ProfileIds -> MapBodies] : SubmitDraws(Origin, e, bodies)
    \/ \E index \in ProfileIds : ClickRouteCard(index)
    \/ ClearMap

SpecMap == InitMap /\ [][NextMap]_vars

\* C25: while route cards are displayed, the map layer at index i is the
\* polyline of route i of state.routes for every i, and a highlighted layer
\* is the polyline of the route that is state.selectedRoute.
C25_LayerBelongsToCard ==
    /\ \A i \in 1..Len(routeCards) :
          /\ i \in 1..Len(stateRoutes)
          /\ i \in 1..Len(routeLayers)
          /\ routeLayers[i].forRoute = i
    /\ \A k \in 1..Len(routeLayers) :
          routeLayers[k].style = "highlight" =>
             /\ routeLayers[k].forRoute \in 1..Len(stateRoutes)
             /\ selectedRoute = stateRoutes[routeLayers[k].forRoute]

=============================================================================
